---------------------------- MODULE Spec2Model ----------------------------
(***************************************************************************)
(* One library of the vector database: its RWLock, its version counters,   *)
(* its chunks, its resident index, and the threads that work on it: knn    *)
(* readers (QueryService.knn), chunk writers (ChunkService.create /        *)
(* update / delete), callers of IndexService.build_index_async (the build  *)
(* endpoint and direct callers) and the threads that run                   *)
(* IndexService.build_index (background threads and synchronous callers).  *)
(***************************************************************************)
EXTENDS Integers, FiniteSets, Sequences, TLC

\* ------------------------------------------------------------------ bounds
NumReaders == 1
NumWriters == 1
NumBuilders == 2
MainBuilds == 1
MaxWrites == 2
MaxChunks == 2
MaxK == 2
MaxQueries == 2
NumVmThreads == 2
MaxVmCalls == 3
NumSvcThreads == 2
MaxSvcCalls == 6
MaxEntities == 2
MaxIxIds == 3
MaxIxOps == 3
MaxIxK == 3
MaxBuild == 2
\* LockRegistry: threads calling get_lock, calls in all, library ids
NumRegThreads == 2
MaxGetCalls == 4
NumRegIds == 2
\* The repositories on their own: ids of each kind, calls in all, the longest
\* list given to replace_all
MaxRepoIds == 2
MaxRepoOps == 3
MaxReplace == 2
\* Requests to the build endpoint
MaxRequests == 2

\* ------------------------------------------------------------- the domain
Lib == "lib1"

Readers == {<<"reader", i>> : i \in 1..NumReaders}
Writers == {<<"writer", i>> : i \in 1..NumWriters}
Builders == {<<"build", i>> : i \in 1..NumBuilders}
\* The build threads of the main specification.
MainPool == {b \in Builders : b[2] <= MainBuilds}
Threads == Readers \cup Writers \cup Builders
\* Threads that call the VersionManager directly, and the libraries they name.
VmThreads == {<<"vm", i>> : i \in 1..NumVmThreads}
LibIds == {"lib1", "lib2"}
\* Threads that call the library, document and chunk services.
SvcThreads == {<<"svc", i>> : i \in 1..NumSvcThreads}

\* Chunk ids are uuid4 strings, fresh at every create: the i-th created chunk.
ChunkIds == 1..MaxChunks

\* Embeddings of the library's dimension (2): the unit vectors e1 and e2.
VecVals == {<<1, 0>>, <<0, 1>>}
\* An embedding of another dimension.
BadVecs == {<<1, 0, 0>>}
\* The library's embedding_dimension.
embedding_dimension == Len(CHOOSE v \in VecVals : TRUE)
\* A chunk's text: a one-letter string.
Texts == {"a"}
NoText == ""
\* The texts of a library whose chunks differ in text, and the text_contains
\* of a filter: one of the texts, or none given.
FilterTexts == {"a", "b"}
Filters == FilterTexts \cup {NoText}
\* The k of a query.
Ks == 1..MaxK

\* A vector index used on its own: the ids, vectors, queries and k its callers
\* pass. Vectors have integer coordinates and an integer norm; a normalized
\* vector has the norm Unit, so <<3, 4>> stands for (0.6, 0.8).
Unit == 5
IxIds == 1..MaxIxIds
IxVecs == {<<5, 0>>, <<0, 5>>, <<6, 8>>, <<0, 0>>}
IxQueries == {<<5, 0>>, <<0, 5>>, <<3, 4>>, <<0, 0>>}
IxKs == 0..MaxIxK

IndexTypes == {"brute_force", "kd_tree", "lsh"}
Unsupported == "unsupported"
\* The types callers of the index service ask for.
CallerTypes == {"lsh", Unsupported}
SyncTypes == {"kd_tree"}
BRUTE_FORCE == "brute_force"

EmptyMap == [x \in {} |-> x]

VARIABLES
    \* RWLock
    readers, writers_waiting, writer_active,
    sleeping,        \* threads inside Condition.wait() that no notify_all has woken yet
    \* VersionManager (VersionInfo of the library)
    data_version, index_version,
    \* ChunkRepository
    items,           \* ids stored for the library (_items / _by_library)
    chunk,           \* the Chunk objects ever created: id -> [embedding, text]
    \* IndexService
    indexes, index_types, building,
    \* settings
    allow_stale_index,
    \* threads
    pc, rloc, wop, bloc,
    writes,          \* chunk service calls started so far
    queries,         \* knn calls started so far, where they are counted
    \* VersionManager, called directly
    versions,        \* _versions: library id -> VersionInfo
    vm_lock,         \* the owner of _lock
    vpc, vloc,       \* the callers' positions and locals
    vcalls,          \* calls started so far
    bumped,          \* library id -> bump_data calls that have written
    \* The three repositories and the services over them
    lib_items,       \* LibraryRepository._items: the ids stored
    doc_items,       \* DocumentRepository._items: id -> library_id
    chunk_items,     \* ChunkRepository._items: id -> [library_id, document_id]
    made,            \* how many ids of each kind have been generated
    write_held,      \* library id -> the thread inside its write_lock()
    spc, sloc,       \* the callers' positions and locals
    scalls,          \* calls started so far
    \* A vector index used on its own
    ix,              \* the index object
    ixop,            \* the last call on it: operation, id, outcome
    ixn,             \* calls on it so far
    ack,             \* id -> what the last successful write with a resident index left
    \* LockRegistry
    reg_locks,       \* _locks: library id -> RWLock object
    reg_lock,        \* the owner of _lock
    rwlocks,         \* RWLock objects constructed so far
    gpc, gloc,       \* the callers' positions and locals
    gcalls,          \* get_lock calls started so far
    returned,        \* the <<library id, RWLock>> pairs get_lock has returned
    \* The three repositories used on their own
    repos,           \* kind -> [items, by_library, by_document]
    rop,             \* the last call: kind, operation, id, outcome
    rn,              \* calls so far
    \* The build endpoint
    accepted         \* the index types of the requests answered "building", in order

lockVars == <<readers, writers_waiting, writer_active, sleeping>>
verVars == <<data_version, index_version>>
repoVars == <<items, chunk>>
idxVars == <<indexes, index_types, building>>
\* What only the environment of the services sets.
vmVars == <<versions, vm_lock, vpc, vloc, vcalls, bumped>>
refVars == <<lib_items, doc_items, chunk_items, made, write_held, spc, sloc, scalls>>
ixVars == <<ix, ixop, ixn>>
regVars == <<reg_locks, reg_lock, rwlocks, gpc, gloc, gcalls, returned>>
\* What the services above never touch.
rpVars == <<repos, rop, rn>>
epVars == <<accepted>>
extVars == <<regVars, rpVars, epVars>>
cfgVars == <<allow_stale_index, extVars, vmVars, refVars, ixVars>>
envVars == <<cfgVars, queries>>
vars == <<readers, writers_waiting, writer_active, sleeping, data_version,
          index_version, items, chunk, indexes, index_types, building,
          allow_stale_index, pc, rloc, wop, bloc, writes, queries, ack,
          versions, vm_lock, vpc, vloc, vcalls, bumped,
          lib_items, doc_items, chunk_items, made, write_held, spc, sloc, scalls,
          ix, ixop, ixn, regVars, rpVars, epVars>>

\* --------------------------------------------------------------- vectors
dot(a, b) == a[1] * b[1] + a[2] * b[2]

\* math.sqrt(sum(x * x for x in a)), on vectors whose norm is an integer
l2_norm(a) == CHOOSE n \in 0..(2 * Unit) : n * n = dot(a, a)

\* normalize: the zero vector stays; the others get the norm Unit.
normalize(a) ==
    LET n == l2_norm(a)
    IN IF n = 0 THEN <<0, 0>> ELSE <<(a[1] * Unit) \div n, (a[2] * Unit) \div n>>

\* cosine_similarity, in units of 1 / Unit^2: 0 when a norm is 0.
cosine_similarity(a, b) ==
    LET na == l2_norm(a)
        nb == l2_norm(b)
    IN IF na = 0 \/ nb = 0 THEN 0 ELSE (dot(a, b) * Unit * Unit) \div (na * nb)

\* RandomHyperplaneLSHIndex._hash with num_planes = 24, seed = 42, dim = 2: the
\* sign pattern of the vector against the 24 planes, which depends on its
\* direction only; every dot product of the zero vector is 0.
LshHash(v) ==
    LET n == normalize(v)
    IN CASE n = <<5, 0>> -> "000101101110111100110111"
         [] n = <<0, 5>> -> "010011101001010001000111"
         [] n = <<3, 4>> -> "010001101001110001000111"
         [] n = <<0, 0>> -> "111111111111111111111111"


\* ------------------------------------------------------- vector indexes
\* An index, as far as the services see it: its variant, its id -> vector map
\* (BruteForceIndex._ids/_vectors, KDTreeIndex._id_to_point,
\* RandomHyperplaneLSHIndex._id_to_vec) and the identity of the object.
NewIndex(itype, vecs, ref) == [type |-> itype, vecs |-> vecs, ref |-> ref]

IndexIds(idx) == DOMAIN idx.vecs

\* VectorIndex.add: brute force and LSH refuse a present id; the KD-tree rebuilds
\* over its id -> point dict without looking.
IndexAdd(idx, id, v) ==
    IF idx.type # "kd_tree" /\ id \in IndexIds(idx)
    THEN [raised |-> TRUE, idx |-> idx]
    ELSE [raised |-> FALSE,
          idx |-> [idx EXCEPT !.vecs =
                     [i \in IndexIds(idx) \cup {id} |-> IF i = id THEN v ELSE idx.vecs[i]]]]

\* VectorIndex.remove: KeyError on an absent id, in the three variants.
IndexRemove(idx, id) ==
    IF id \notin IndexIds(idx)
    THEN [raised |-> TRUE, idx |-> idx]
    ELSE [raised |-> FALSE,
          idx |-> [idx EXCEPT !.vecs = [i \in IndexIds(idx) \ {id} |-> idx.vecs[i]]]]

\* VectorIndex.update: KeyError on an absent id, in the three variants.
IndexUpdate(idx, id, v) ==
    IF id \notin IndexIds(idx)
    THEN [raised |-> TRUE, idx |-> idx]
    ELSE [raised |-> FALSE, idx |-> [idx EXCEPT !.vecs[id] = v]]

Min(a, b) == IF a < b THEN a ELSE b

\* The id sets a sort by descending score, cut to k, can return: the order among
\* equal scores is the order of the id list, which comes from a Python set.
TopK(cands, vecs, q, k) ==
    {S \in SUBSET cands :
        /\ Cardinality(S) = Min(k, Cardinality(cands))
        /\ \A a \in S : \A b \in cands \ S :
              cosine_similarity(q, vecs[a]) >= cosine_similarity(q, vecs[b])}

\* RandomHyperplaneLSHIndex.search's candidates: the query's bucket, or every id
\* when that bucket is empty.
LshCandidates(idx, q) ==
    LET bucket == {i \in IndexIds(idx) : LshHash(idx.vecs[i]) = LshHash(q)}
    IN IF bucket = {} THEN IndexIds(idx) ELSE bucket

\* VectorIndex.search, as the set of id sets it can return.
IndexSearch(idx, q, k) ==
    IF k <= 0 THEN {{}}
    ELSE IF idx.type = "lsh" THEN TopK(LshCandidates(idx, q), idx.vecs, q, k)
    ELSE TopK(IndexIds(idx), idx.vecs, q, k)

\* IndexService._create_index
CreateIndexRaises(itype) == itype \notin IndexTypes

\* ----------------------------------------------------------------- RWLock
\* acquire_read waiting for the active writer only, not for the waiting ones.
ReadBlockedByActiveOnly == writer_active

\* acquire_read's wait condition
ReadBlocked == writer_active \/ writers_waiting > 0

\* acquire_write waiting for the writer only, not for the readers.
WriteBlockedByWriterOnly == writer_active

\* acquire_write's wait condition
WriteBlocked == writer_active \/ readers > 0

\* An acquire_read that also waits for the readers inside.
TryReadExclusive(t, waitPc, inPc) ==
    /\ IF writer_active \/ writers_waiting > 0 \/ readers > 0
       THEN /\ sleeping' = sleeping \cup {t}
            /\ pc' = [pc EXCEPT ![t] = waitPc]
            /\ UNCHANGED readers
       ELSE /\ readers' = readers + 1
            /\ pc' = [pc EXCEPT ![t] = inPc]
            /\ UNCHANGED sleeping
    /\ UNCHANGED <<writers_waiting, writer_active>>

\* acquire_read from its wait loop on: wait() if blocked, else count the reader.
TryRead(t, waitPc, inPc) ==
    /\ IF ReadBlocked
       THEN /\ sleeping' = sleeping \cup {t}
            /\ pc' = [pc EXCEPT ![t] = waitPc]
            /\ UNCHANGED readers
       ELSE /\ readers' = readers + 1
            /\ pc' = [pc EXCEPT ![t] = inPc]
            /\ UNCHANGED sleeping
    /\ UNCHANGED <<writers_waiting, writer_active>>

\* acquire_write from its wait loop on; `waiting` is writers_waiting as the loop
\* sees it (already counting this thread).
TryWrite(t, waiting, waitPc, inPc) ==
    IF WriteBlocked
    THEN /\ sleeping' = sleeping \cup {t}
         /\ pc' = [pc EXCEPT ![t] = waitPc]
         /\ writers_waiting' = waiting
         /\ UNCHANGED <<readers, writer_active>>
    ELSE /\ writer_active' = TRUE
         /\ writers_waiting' = waiting - 1
         /\ pc' = [pc EXCEPT ![t] = inPc]
         /\ UNCHANGED <<readers, sleeping>>

\* release_read: notify_all when the last reader leaves.
ReleaseRead ==
    /\ readers' = readers - 1
    /\ sleeping' = IF readers - 1 = 0 THEN {} ELSE sleeping
    /\ UNCHANGED <<writers_waiting, writer_active>>

\* A release_write that wakes nobody.
ReleaseWriteNoNotify ==
    /\ writer_active' = FALSE
    /\ UNCHANGED <<readers, writers_waiting, sleeping>>

\* release_write
ReleaseWrite ==
    /\ writer_active' = FALSE
    /\ sleeping' = {}
    /\ UNCHANGED <<readers, writers_waiting>>

\* --------------------------------------------------------- VersionManager
is_index_stale == index_version # data_version

\* VersionInfo()
NewVersionInfo == [data_version |-> 0, index_version |-> -1]

\* ------------------------------------------------------------- the state
NoVec == << >>
IdleR == [stale |-> FALSE, cs |-> {}, res |-> {}, src |-> "none", q |-> NoVec, k |-> 0,
          f |-> NoText]
IdleW == [kind |-> "none", id |-> 0, embedding |-> NoVec, text |-> NoText]
IdleB == [itype |-> "none", chunks |-> {}, vecs |-> EmptyMap, async |-> FALSE,
          snap_version |-> 0, built |-> FALSE]
NoAck == [state |-> "none", embedding |-> NoVec]
NoOwner == <<"none", 0>>
\* The repositories on their own: the ids of the entities and of the parents
\* they name (0: the entity has no such attribute), the entities, the fields
\* an update is given (NoField: None).
RepoKinds == {"libraries", "documents", "chunks"}
RepoIds == 1..MaxRepoIds
NoField == 0
ParentsOf(kind, field) ==
    IF kind = "chunks" \/ (kind = "documents" /\ field = "library_id") THEN RepoIds
    ELSE {NoField}
EntitiesOf(kind) ==
    {[id |-> i, library_id |-> l, document_id |-> d] :
        i \in RepoIds, l \in ParentsOf(kind, "library_id"),
        d \in ParentsOf(kind, "document_id")}
\* __init__: _items = {}, _by_library and _by_document = defaultdict(set)
RepoNew == [items |-> EmptyMap, by_library |-> [l \in RepoIds |-> {}],
            by_document |-> [d \in RepoIds |-> {}]]
NoCall == [kind |-> "none", op |-> "none", id |-> 0, raised |-> "", res |-> {}]
\* LockRegistry: the ids asked for, the callers, a caller outside get_lock
RegIds == 1..NumRegIds
RegThreads == {<<"reg", i>> : i \in 1..NumRegThreads}
NoLock == 0
IdleG == [library_id |-> 0, lock |-> NoLock]
IdleS == [lib |-> 0, doc |-> 0, chunk |-> 0, docs |-> {}, chs |-> {}]
IdleV == [op |-> "none", lib |-> "none", version |-> 0, tmp |-> 0, ret |-> FALSE]
\* No index object yet; no call on it yet.
NoIndex == [type |-> "none"]
NoOp == [op |-> "none", id |-> 0, raised |-> "", res |-> << >>]

Init ==
    /\ readers = 0 /\ writers_waiting = 0 /\ writer_active = FALSE
    /\ sleeping = {}
    /\ data_version = 0 /\ index_version = -1
    /\ items = {} /\ chunk = EmptyMap
    /\ indexes = EmptyMap /\ index_types = EmptyMap /\ building = EmptyMap
    /\ allow_stale_index \in BOOLEAN
    /\ pc = [t \in Threads |-> "idle"]
    /\ rloc = [r \in Readers |-> IdleR]
    /\ wop = [w \in Writers |-> IdleW]
    /\ bloc = [b \in Builders |-> IdleB]
    /\ writes = 0 /\ queries = 0
    /\ versions = EmptyMap /\ vm_lock = NoOwner
    /\ vpc = [t \in VmThreads |-> "idle"]
    /\ vloc = [t \in VmThreads |-> IdleV]
    /\ vcalls = 0
    /\ bumped = [l \in LibIds |-> 0]
    /\ lib_items = {} /\ doc_items = EmptyMap /\ chunk_items = EmptyMap
    /\ made = [lib |-> 0, doc |-> 0, chunk |-> 0]
    /\ write_held = EmptyMap
    /\ spc = [t \in SvcThreads |-> "idle"]
    /\ sloc = [t \in SvcThreads |-> IdleS]
    /\ scalls = 0
    /\ ix = NoIndex /\ ixop = NoOp /\ ixn = 0
    /\ ack = [i \in ChunkIds |-> NoAck]
    /\ reg_locks = EmptyMap /\ reg_lock = NoOwner /\ rwlocks = 0
    /\ gpc = [t \in RegThreads |-> "idle"] /\ gloc = [t \in RegThreads |-> IdleG]
    /\ gcalls = 0 /\ returned = {}
    /\ repos = [kind \in RepoKinds |-> RepoNew] /\ rop = NoCall /\ rn = 0
    /\ accepted = << >>

\* dict.get(library_id) on IndexService._building
IsBuilding == Lib \in DOMAIN building /\ building[Lib]

HasIndex == Lib \in DOMAIN indexes

\* The embeddings of a list of Chunk objects, read now.
Embeddings(cs) == [i \in cs |-> chunk[i].embedding]

\* threading.Thread(target=self.build_index, ...).start(): a free thread of the
\* pool takes the call. All free threads are alike: the first one is taken.
FreeBuilders(pool) == {b \in pool : pc[b] = "idle"}
FirstFree(pool) == CHOOSE b \in FreeBuilders(pool) : \A c \in FreeBuilders(pool) : b[2] <= c[2]

StartBuild(b, itype, cs, async) ==
    bloc' = [bloc EXCEPT ![b] = [IdleB EXCEPT !.itype = itype, !.chunks = cs,
                                              !.async = async]]

\* ------------------------------------------------------ QueryService.knn
\* A filter that every chunk passes.
MatchesAny(c, f) == TRUE

\* _matches_filter with text_contains the only field that can be set: no test
\* when it is empty, else a substring test, which on one-letter texts is
\* equality.
MatchesFilter(c, f) == f = NoText \/ c.text = f

\* A transient search that does not cut its result to k.
UncutSearch(cs, q, k) == {cs}

\* BruteForceIndex.search of a transient index: pairs[:max(0, k)].
TransientSearch(cs, q, k) == TopK(cs, Embeddings(cs), q, IF k < 0 THEN 0 ELSE k)

\* lock.read_lock().__enter__
KnnEnter(r) ==
    /\ pc[r] = "idle"
    /\ TryRead(r, "r_wait", "r_body")
    /\ UNCHANGED <<verVars, repoVars, idxVars, cfgVars, rloc, wop, bloc, writes, ack>>

\* A knn call of a client that goes on calling.
KnnStart(r) == KnnEnter(r) /\ UNCHANGED queries

\* A knn call of clients that make MaxQueries calls in all.
KnnStartCounted(r) ==
    /\ queries < MaxQueries
    /\ queries' = queries + 1
    /\ KnnEnter(r)

KnnWake(r) ==
    /\ pc[r] = "r_wait" /\ r \notin sleeping
    /\ TryRead(r, "r_wait", "r_body")
    /\ UNCHANGED <<verVars, repoVars, idxVars, envVars, rloc, wop, bloc, writes, ack>>

\* The filtered path: a transient brute force over the matching chunks.
KnnFilteredWith(r, fs) ==
    /\ pc[r] = "r_body"
    /\ \E f \in fs, q \in VecVals, k \in Ks :
         LET filtered == {i \in items : MatchesFilter(chunk[i], f)}
         IN \E S \in TransientSearch(filtered, q, k) :
              rloc' = [rloc EXCEPT ![r] = [IdleR EXCEPT !.res = S, !.src = "filtered",
                                                        !.q = q, !.k = k, !.f = f]]
    /\ pc' = [pc EXCEPT ![r] = "r_release"]
    /\ UNCHANGED <<lockVars, verVars, repoVars, idxVars, envVars, wop, bloc,
                   writes, ack>>

KnnFiltered(r) == KnnFilteredWith(r, Texts)

\* The unfiltered path up to build_index_async's look at the building flag: the
\* staleness check, the chunk list, the flag. The list and the staleness are
\* kept as long as the code still reads them.
KnnUnfiltered(r) ==
    /\ pc[r] = "r_body"
    /\ IF is_index_stale
       THEN /\ rloc' = [rloc EXCEPT ![r] =
                          IF IsBuilding /\ allow_stale_index THEN IdleR
                          ELSE [IdleR EXCEPT !.stale = TRUE, !.cs = items]]
            /\ pc' = [pc EXCEPT ![r] = IF IsBuilding THEN "r_search" ELSE "r_spawn"]
       ELSE /\ pc' = [pc EXCEPT ![r] = "r_search"]
            /\ UNCHANGED rloc
    /\ UNCHANGED <<lockVars, verVars, repoVars, idxVars, envVars, wop, bloc,
                   writes, ack>>

\* rebuild_async_using_existing_type's type
ExistingType == IF Lib \in DOMAIN index_types THEN index_types[Lib] ELSE BRUTE_FORCE

\* build_index_async past its check: set the flag, start the thread.
KnnSpawn(r, pool) ==
    /\ pc[r] = "r_spawn"
    /\ FreeBuilders(pool) # {}
    /\ building' = (Lib :> TRUE) @@ building
    /\ StartBuild(FirstFree(pool), ExistingType, rloc[r].cs, TRUE)
    /\ pc' = [pc EXCEPT ![r] = "r_search", ![FirstFree(pool)] = "b_start"]
    /\ rloc' = [rloc EXCEPT ![r] = IF allow_stale_index THEN IdleR ELSE @]
    /\ UNCHANGED <<lockVars, verVars, repoVars, indexes, index_types,
                   envVars, wop, writes, ack>>

\* The transient brute force over the listed chunks, or IndexService.search.
KnnSearch(r) ==
    /\ pc[r] = "r_search"
    /\ \E q \in VecVals, k \in Ks :
         \/ /\ rloc[r].stale /\ ~allow_stale_index
            /\ \E S \in TransientSearch(rloc[r].cs, q, k) :
                 rloc' = [rloc EXCEPT ![r] = [IdleR EXCEPT !.res = S, !.src = "transient",
                                                           !.q = q, !.k = k]]
         \/ /\ ~(rloc[r].stale /\ ~allow_stale_index)
            /\ \E S \in (IF HasIndex THEN IndexSearch(indexes[Lib], q, k) ELSE {{}}) :
                 rloc' = [rloc EXCEPT ![r] = [IdleR EXCEPT !.res = S, !.src = "resident",
                                                           !.q = q, !.k = k]]
    /\ pc' = [pc EXCEPT ![r] = "r_release"]
    /\ UNCHANGED <<lockVars, verVars, repoVars, idxVars, envVars, wop, bloc, writes, ack>>

\* lock.read_lock().__exit__
KnnReturn(r) ==
    /\ pc[r] = "r_release"
    /\ ReleaseRead
    /\ pc' = [pc EXCEPT ![r] = "idle"]
    /\ rloc' = [rloc EXCEPT ![r] = IdleR]
    /\ UNCHANGED <<verVars, repoVars, idxVars, envVars, wop, bloc,
                   writes, ack>>

\* ----------------------------------------------------------- ChunkService
\* The id the next Chunk(...) gets (uuid4: never one used before).
FreshId == Cardinality(DOMAIN chunk) + 1

PendingCreates == Cardinality({w \in Writers : wop[w].kind = "create"})

\* A validation that lets every embedding through.
AnyEmbedding(v) == TRUE

\* ChunkService._validate_embedding's test
ValidEmbedding(v) == Len(v) = embedding_dimension

\* What the call does before the lock (the lookups of the library, the document
\* and, for update and delete, the chunk; for create the validation of the
\* embedding), then lock.write_lock().__enter__.
ChunkCallWith(w, texts) ==
    /\ pc[w] = "idle"
    /\ writes < MaxWrites
    /\ writes' = writes + 1
    /\ \/ \E v \in VecVals \cup BadVecs, t \in texts :
            IF ValidEmbedding(v)
            THEN /\ Cardinality(DOMAIN chunk) + PendingCreates < MaxChunks
                 /\ wop' = [wop EXCEPT ![w] = [kind |-> "create", id |-> 0,
                                                embedding |-> v, text |-> t]]
                 /\ TryWrite(w, writers_waiting + 1, "w_wait", "w_body")
            ELSE UNCHANGED <<lockVars, pc, wop>>
       \/ /\ \/ \E i \in items, v \in VecVals \cup BadVecs \cup {NoVec},
                    t \in texts \cup {NoText} :
                    wop' = [wop EXCEPT ![w] = [kind |-> "update", id |-> i,
                                                embedding |-> v, text |-> t]]
             \/ \E i \in items :
                    wop' = [wop EXCEPT ![w] = [kind |-> "delete", id |-> i,
                                                embedding |-> NoVec, text |-> NoText]]
          /\ TryWrite(w, writers_waiting + 1, "w_wait", "w_body")
    /\ UNCHANGED <<verVars, repoVars, idxVars, envVars, rloc, bloc, ack>>

ChunkCall(w) == ChunkCallWith(w, Texts)

ChunkWake(w) ==
    /\ pc[w] = "w_wait" /\ w \notin sleeping
    /\ TryWrite(w, writers_waiting, "w_wait", "w_body")
    /\ UNCHANGED <<verVars, repoVars, idxVars, envVars, rloc, wop, bloc, writes, ack>>

\* IndexService.add_chunk / update_chunk / remove_chunk after `patch`, the
\* index operation's outcome: the version is synced unless the operation raised.
SyncAfterPatch(patch, dv) ==
    /\ indexes' = (Lib :> patch.idx) @@ indexes
    /\ index_version' = IF patch.raised THEN index_version ELSE dv

\* ChunkService.create inside the write lock
CreateBody(w) ==
    LET id == FreshId
        c == [embedding |-> wop[w].embedding, text |-> wop[w].text]
    IN /\ items' = items \cup {id}
       /\ chunk' = (id :> c) @@ chunk
       /\ data_version' = data_version + 1
       /\ IF HasIndex
          THEN LET patch == IndexAdd(indexes[Lib], id, c.embedding)
               IN /\ SyncAfterPatch(patch, data_version + 1)
                  /\ ack' = IF patch.raised THEN ack
                            ELSE [ack EXCEPT ![id] = [state |-> "live",
                                                      embedding |-> c.embedding]]
          ELSE UNCHANGED <<indexes, index_version, ack>>

\* ChunkService.update inside the write lock
UpdateBody(w) ==
    LET id == wop[w].id
        e == wop[w].embedding
        t == wop[w].text
    IN IF (e # NoVec /\ ~ValidEmbedding(e)) \/ id \notin items
       THEN UNCHANGED <<items, chunk, data_version, indexes, index_version, ack>>
       ELSE /\ chunk' = [chunk EXCEPT
                           ![id].embedding = IF e # NoVec THEN e ELSE @,
                           ![id].text = IF t # NoText THEN t ELSE @]
            /\ data_version' = data_version + 1
            /\ UNCHANGED items
            /\ IF e # NoVec /\ HasIndex
               THEN LET patch == IndexUpdate(indexes[Lib], id, e)
                    IN /\ SyncAfterPatch(patch, data_version + 1)
                       /\ ack' = IF patch.raised THEN ack
                                 ELSE [ack EXCEPT ![id] = [state |-> "live",
                                                           embedding |-> e]]
               ELSE UNCHANGED <<indexes, index_version, ack>>

\* ChunkService.delete inside the write lock
DeleteBody(w) ==
    LET id == wop[w].id
    IN IF id \notin items
       THEN UNCHANGED <<items, chunk, data_version, indexes, index_version, ack>>
       ELSE /\ items' = items \ {id}
            /\ data_version' = data_version + 1
            /\ UNCHANGED chunk
            /\ IF HasIndex
               THEN LET patch == IndexRemove(indexes[Lib], id)
                    IN /\ SyncAfterPatch(patch, data_version + 1)
                       /\ ack' = IF patch.raised THEN ack
                                 ELSE [ack EXCEPT ![id] = [state |-> "deleted",
                                                           embedding |-> NoVec]]
               ELSE UNCHANGED <<indexes, index_version, ack>>

\* The call inside the write lock gets as far as IndexService.add_chunk /
\* update_chunk / remove_chunk.
CallsIndexPatch(w) ==
    LET id == wop[w].id
        e == wop[w].embedding
    IN \/ wop[w].kind = "create"
       \/ wop[w].kind = "update" /\ e # NoVec /\ ValidEmbedding(e) /\ id \in items
       \/ wop[w].kind = "delete" /\ id \in items

\* The call inside the write lock ends with an exception: Validation, NotFound,
\* or what the index operation raises.
ChunkRaises(w) ==
    LET id == wop[w].id
        e == wop[w].embedding
    IN \/ /\ wop[w].kind = "create"
          /\ HasIndex /\ IndexAdd(indexes[Lib], FreshId, e).raised
       \/ /\ wop[w].kind = "update"
          /\ \/ e # NoVec /\ ~ValidEmbedding(e)
             \/ id \notin items
             \/ e # NoVec /\ HasIndex /\ IndexUpdate(indexes[Lib], id, e).raised
       \/ /\ wop[w].kind = "delete"
          /\ (id \notin items \/ (HasIndex /\ IndexRemove(indexes[Lib], id).raised))

\* An exit from the write-locked section that releases only when the section
\* ends without an exception.
WriteLockExitOnReturn(w) == IF ChunkRaises(w) THEN UNCHANGED lockVars ELSE ReleaseWrite

\* lock.write_lock().__exit__: the finally clause, on return and on exception
WriteLockExit(w) == ReleaseWrite

\* The section under the write lock and lock.write_lock().__exit__, which runs
\* on every way out of it.
ChunkBody(w) ==
    /\ pc[w] = "w_body"
    /\ \/ wop[w].kind = "create" /\ CreateBody(w)
       \/ wop[w].kind = "update" /\ UpdateBody(w)
       \/ wop[w].kind = "delete" /\ DeleteBody(w)
    /\ WriteLockExit(w)
    /\ pc' = [pc EXCEPT ![w] = "idle"]
    /\ wop' = [wop EXCEPT ![w] = IdleW]
    /\ UNCHANGED <<index_types, building, envVars, rloc, bloc, writes>>

\* ------------------------------------------------ IndexService.build_index
\* A synchronous call of build_index over the chunks listed just before it.
SyncBuild(pool) ==
    /\ FreeBuilders(pool) # {}
    /\ \E itype \in SyncTypes : StartBuild(FirstFree(pool), itype, items, FALSE)
    /\ pc' = [pc EXCEPT ![FirstFree(pool)] = "b_start"]
    /\ UNCHANGED <<lockVars, verVars, repoVars, idxVars, envVars, rloc, wop, writes, ack>>

BuildAcquireRead(b) ==
    /\ pc[b] = "b_start"
    /\ TryRead(b, "b_rwait", "b_read")
    /\ UNCHANGED <<verVars, repoVars, idxVars, envVars, rloc, wop, bloc, writes, ack>>

BuildReadWake(b) ==
    /\ pc[b] = "b_rwait" /\ b \notin sleeping
    /\ TryRead(b, "b_rwait", "b_read")
    /\ UNCHANGED <<verVars, repoVars, idxVars, envVars, rloc, wop, bloc, writes, ack>>

\* The section under the read lock (the embeddings and ids of the chunks it was
\* given) and the release.
BuildSnapshot(b) ==
    /\ pc[b] = "b_read"
    /\ bloc' = [bloc EXCEPT ![b].vecs = Embeddings(bloc[b].chunks),
                            ![b].chunks = {},
                            ![b].snap_version = data_version]
    /\ ReleaseRead
    /\ pc' = [pc EXCEPT ![b] = "b_build"]
    /\ UNCHANGED <<verVars, repoVars, idxVars, envVars, rloc, wop,
                   writes, ack>>

\* A failing build_index whose cleanup records the index as synced.
BuildFailSyncsVersion(b) ==
    /\ pc[b] = "b_build"
    /\ CreateIndexRaises(bloc[b].itype)
    /\ index_version' = data_version
    /\ pc' = [pc EXCEPT ![b] = "idle"]
    /\ bloc' = [bloc EXCEPT ![b] = IdleB]
    /\ UNCHANGED <<lockVars, data_version, repoVars, idxVars, envVars, rloc, wop,
                   writes, ack>>

\* _create_index raises: build_index ends there, and so does its thread.
BuildFail(b) ==
    /\ pc[b] = "b_build"
    /\ CreateIndexRaises(bloc[b].itype)
    /\ pc' = [pc EXCEPT ![b] = "idle"]
    /\ bloc' = [bloc EXCEPT ![b] = IdleB]
    /\ UNCHANGED <<lockVars, verVars, repoVars, idxVars, envVars, rloc, wop, writes, ack>>

\* A build_index that goes on to the swap without taking the write lock.
BuildConstructUnlocked(b) ==
    /\ pc[b] = "b_build"
    /\ ~CreateIndexRaises(bloc[b].itype)
    /\ bloc' = [bloc EXCEPT ![b].built = TRUE]
    /\ pc' = [pc EXCEPT ![b] = "b_publish"]
    /\ UNCHANGED <<lockVars, verVars, repoVars, idxVars, envVars, rloc, wop,
                   writes, ack>>

\* The index is built off-lock; then lock.write_lock().__enter__.
BuildConstruct(b) ==
    /\ pc[b] = "b_build"
    /\ ~CreateIndexRaises(bloc[b].itype)
    /\ bloc' = [bloc EXCEPT ![b].built = TRUE]
    /\ TryWrite(b, writers_waiting + 1, "b_wwait", "b_publish")
    /\ UNCHANGED <<verVars, repoVars, idxVars, envVars, rloc, wop, writes, ack>>

BuildWriteWake(b) ==
    /\ pc[b] = "b_wwait" /\ b \notin sleeping
    /\ TryWrite(b, writers_waiting, "b_wwait", "b_publish")
    /\ UNCHANGED <<verVars, repoVars, idxVars, envVars, rloc, wop, bloc, writes, ack>>

\* The identity of a new index object: not that of the resident one.
NewRef == IF HasIndex THEN 1 - indexes[Lib].ref ELSE 0

\* A build that leaves the vectors of its snapshot out.
EmptyBuiltIndex(b) == NewIndex(bloc[b].itype, EmptyMap, NewRef)

\* The index build_index built off-lock from its snapshot.
BuiltIndex(b) == NewIndex(bloc[b].itype, bloc[b].vecs, NewRef)

\* A publish that records the version build_index saw at its snapshot.
PublishedSnapshotVersion(b) == bloc[b].snap_version

\* The version build_index records for the index it publishes.
PublishedVersion(b) == data_version

\* The swap under the write lock, and the release.
BuildPublish(b) ==
    /\ pc[b] = "b_publish"
    /\ indexes' = (Lib :> BuiltIndex(b)) @@ indexes
    /\ index_types' = (Lib :> bloc[b].itype) @@ index_types
    /\ index_version' = PublishedVersion(b)
    /\ building' = (Lib :> FALSE) @@ building
    /\ ReleaseWrite
    /\ pc' = [pc EXCEPT ![b] = "idle"]
    /\ bloc' = [bloc EXCEPT ![b] = IdleB]
    /\ UNCHANGED <<data_version, repoVars, envVars, rloc, wop,
                   writes, ack>>

\* ------------------------------------------ IndexService.build_index_async
\* A call from outside a knn: the build endpoint lists the chunks without the
\* lock and calls build_index_async, which looks at the flag, sets it and starts
\* the thread.
BuildAsyncCall(pool) ==
    /\ ~IsBuilding
    /\ FreeBuilders(pool) # {}
    /\ building' = (Lib :> TRUE) @@ building
    /\ \E itype \in CallerTypes : StartBuild(FirstFree(pool), itype, items, TRUE)
    /\ pc' = [pc EXCEPT ![FirstFree(pool)] = "b_start"]
    /\ UNCHANGED <<lockVars, verVars, repoVars, indexes, index_types,
                   envVars, rloc, wop, writes, ack>>

\* ------------------------------------------------ VersionManager, directly
coreVars == <<lockVars, verVars, repoVars, idxVars, allow_stale_index, extVars, pc, rloc, wop,
              bloc, writes, queries, ack, ixVars>>
mainVars == <<coreVars, refVars>>

VmOps == {"get", "bump_data", "set_index_version", "is_index_stale"}

\* A thread calls get, bump_data, set_index_version or is_index_stale.
VmCall(t) ==
    /\ vpc[t] = "idle"
    /\ vcalls < MaxVmCalls
    /\ vcalls' = vcalls + 1
    /\ \E op \in VmOps, l \in LibIds, v \in 0..1 :
         vloc' = [vloc EXCEPT ![t] = [IdleV EXCEPT !.op = op, !.lib = l,
                                        !.version = IF op = "set_index_version" THEN v ELSE 0]]
    /\ vpc' = [vpc EXCEPT ![t] = "v_acquire"]
    /\ UNCHANGED <<mainVars, versions, vm_lock, bumped>>

\* A caller that goes on without the mutex.
VmAcquireNoLock(t) ==
    /\ vpc[t] = "v_acquire"
    /\ vpc' = [vpc EXCEPT ![t] = "v_default"]
    /\ UNCHANGED <<mainVars, versions, vm_lock, vloc, vcalls, bumped>>

\* with self._lock: enter
VmAcquire(t) ==
    /\ vpc[t] = "v_acquire"
    /\ vm_lock = NoOwner
    /\ vm_lock' = t
    /\ vpc' = [vpc EXCEPT ![t] = "v_default"]
    /\ UNCHANGED <<mainVars, versions, vloc, vcalls, bumped>>

\* self._versions.setdefault(library_id, VersionInfo())
VmSetDefault(t) ==
    /\ vpc[t] = "v_default"
    /\ versions' = IF vloc[t].lib \in DOMAIN versions THEN versions
                   ELSE (vloc[t].lib :> NewVersionInfo) @@ versions
    /\ vpc' = [vpc EXCEPT ![t] = "v_body"]
    /\ UNCHANGED <<mainVars, vm_lock, vloc, vcalls, bumped>>

\* The rest of the method: the read of vi.data_version for `+= 1`, the
\* assignment of index_version, the comparison, or nothing (get).
VmBody(t) ==
    LET l == vloc[t].lib
        vi == versions[l]
    IN /\ vpc[t] = "v_body"
       /\ \/ /\ vloc[t].op = "bump_data"
             /\ vloc' = [vloc EXCEPT ![t].tmp = vi.data_version]
             /\ vpc' = [vpc EXCEPT ![t] = "v_store"]
             /\ UNCHANGED versions
          \/ /\ vloc[t].op = "set_index_version"
             /\ versions' = [versions EXCEPT ![l].index_version = vloc[t].version]
             /\ vpc' = [vpc EXCEPT ![t] = "v_release"]
             /\ UNCHANGED vloc
          \/ /\ vloc[t].op = "is_index_stale"
             /\ vloc' = [vloc EXCEPT ![t].ret = (vi.index_version # vi.data_version)]
             /\ vpc' = [vpc EXCEPT ![t] = "v_release"]
             /\ UNCHANGED versions
          \/ /\ vloc[t].op = "get"
             /\ vpc' = [vpc EXCEPT ![t] = "v_release"]
             /\ UNCHANGED <<versions, vloc>>
       /\ UNCHANGED <<mainVars, vm_lock, vcalls, bumped>>

\* vi.data_version += 1: the store
VmStore(t) ==
    /\ vpc[t] = "v_store"
    /\ versions' = [versions EXCEPT ![vloc[t].lib].data_version = vloc[t].tmp + 1]
    /\ bumped' = [bumped EXCEPT ![vloc[t].lib] = @ + 1]
    /\ vpc' = [vpc EXCEPT ![t] = "v_release"]
    /\ UNCHANGED <<mainVars, vm_lock, vloc, vcalls>>

\* with self._lock: exit, and the return
VmReturn(t) ==
    /\ vpc[t] = "v_release"
    /\ vm_lock' = NoOwner
    /\ vpc' = [vpc EXCEPT ![t] = "idle"]
    /\ vloc' = [vloc EXCEPT ![t] = IdleV]
    /\ UNCHANGED <<mainVars, versions, vcalls, bumped>>

VmNext ==
    \E t \in VmThreads : VmCall(t) \/ VmAcquire(t) \/ VmSetDefault(t) \/ VmBody(t)
                         \/ VmStore(t) \/ VmReturn(t)

VmSpec == Init /\ [][VmNext]_vars

\* ------------------------- LibraryService, DocumentService, ChunkService
\* The services over the three repositories, for libraries that have no
\* resident index: IndexService.add_chunk and remove_chunk find none.
svcRest == <<coreVars, vm_lock, vpc, vloc, vcalls, bumped>>

\* del self._items[id]
Remove(f, k) == [x \in DOMAIN f \ {k} |-> f[x]]

\* VersionManager.bump_data
BumpData(vs, l) ==
    LET vi == IF l \in DOMAIN vs THEN vs[l] ELSE NewVersionInfo
    IN (l :> [vi EXCEPT !.data_version = @ + 1]) @@ vs

\* DocumentRepository.list_by_library, ChunkRepository.list_by_document
DocsOf(l) == {d \in DOMAIN doc_items : doc_items[d] = l}
ChunksOfDocument(d) == {c \in DOMAIN chunk_items : chunk_items[c].document_id = d}

\* A call begins: `next` is where the thread goes, with the locals `loc`.
SvcBegin(t, next, loc) ==
    /\ spc[t] = "idle"
    /\ scalls < MaxSvcCalls
    /\ scalls' = scalls + 1
    /\ spc' = [spc EXCEPT ![t] = next]
    /\ sloc' = [sloc EXCEPT ![t] = loc]

\* A call ends, by return or by exception.
SvcEnd(t) ==
    /\ spc' = [spc EXCEPT ![t] = "idle"]
    /\ sloc' = [sloc EXCEPT ![t] = IdleS]

\* LibraryService.create
LibCreate(t) ==
    /\ made.lib < MaxEntities
    /\ SvcBegin(t, "idle", IdleS)
    /\ lib_items' = lib_items \cup {made.lib + 1}
    /\ made' = [made EXCEPT !.lib = @ + 1]
    /\ UNCHANGED <<svcRest, versions, doc_items, chunk_items, write_held>>

\* LibraryService.delete: self._libraries.get(library_id)
LibDeleteCall(t) ==
    /\ \E l \in 1..made.lib :
         IF l \in lib_items
         THEN SvcBegin(t, "ld_list", [IdleS EXCEPT !.lib = l])
         ELSE SvcBegin(t, "idle", IdleS)
    /\ UNCHANGED <<svcRest, versions, lib_items, doc_items, chunk_items, made, write_held>>

\* docs = self._documents.list_by_library(library_id)
LibDeleteList(t) ==
    /\ spc[t] = "ld_list"
    /\ sloc' = [sloc EXCEPT ![t].docs = DocsOf(sloc[t].lib)]
    /\ spc' = [spc EXCEPT ![t] = "ld_doc"]
    /\ UNCHANGED <<svcRest, versions, lib_items, doc_items, chunk_items, made, write_held,
                   scalls>>

\* for d in docs: self._chunks.list_by_document(d.id)
LibDeleteNextDoc(t) ==
    /\ spc[t] = "ld_doc"
    /\ IF sloc[t].docs = {}
       THEN /\ spc' = [spc EXCEPT ![t] = "ld_lib"]
            /\ UNCHANGED sloc
       ELSE /\ \E d \in sloc[t].docs :
                 sloc' = [sloc EXCEPT ![t].doc = d, ![t].docs = @ \ {d},
                                      ![t].chs = ChunksOfDocument(d)]
            /\ spc' = [spc EXCEPT ![t] = "ld_chunks"]
    /\ UNCHANGED <<svcRest, versions, lib_items, doc_items, chunk_items, made, write_held,
                   scalls>>

\* for ch in ...: self._chunks.delete(ch.id), NotFound when it is gone
LibDeleteChunk(t) ==
    /\ spc[t] = "ld_chunks"
    /\ sloc[t].chs # {}
    /\ \E c \in sloc[t].chs :
         IF c \in DOMAIN chunk_items
         THEN /\ chunk_items' = Remove(chunk_items, c)
              /\ sloc' = [sloc EXCEPT ![t].chs = @ \ {c}]
              /\ UNCHANGED spc
         ELSE /\ SvcEnd(t)
              /\ UNCHANGED chunk_items
    /\ UNCHANGED <<svcRest, versions, lib_items, doc_items, made, write_held, scalls>>

\* self._documents.delete(d.id), NotFound when it is gone
LibDeleteDocument(t) ==
    /\ spc[t] = "ld_chunks"
    /\ sloc[t].chs = {}
    /\ IF sloc[t].doc \in DOMAIN doc_items
       THEN /\ doc_items' = Remove(doc_items, sloc[t].doc)
            /\ spc' = [spc EXCEPT ![t] = "ld_doc"]
            /\ UNCHANGED sloc
       ELSE /\ SvcEnd(t)
            /\ UNCHANGED doc_items
    /\ UNCHANGED <<svcRest, versions, lib_items, chunk_items, made, write_held, scalls>>

\* self._libraries.delete(library_id), NotFound when it is gone
LibDeleteFinish(t) ==
    /\ spc[t] = "ld_lib"
    /\ lib_items' = lib_items \ {sloc[t].lib}
    /\ SvcEnd(t)
    /\ UNCHANGED <<svcRest, versions, doc_items, chunk_items, made, write_held, scalls>>

\* DocumentService.create: self._libraries.get(library_id)
DocCreateCall(t) ==
    /\ made.doc + Cardinality({u \in SvcThreads : spc[u] = "dc_create"}) < MaxEntities
    /\ \E l \in 1..made.lib :
         IF l \in lib_items
         THEN SvcBegin(t, "dc_create", [IdleS EXCEPT !.lib = l])
         ELSE SvcBegin(t, "idle", IdleS)
    /\ UNCHANGED <<svcRest, versions, lib_items, doc_items, chunk_items, made, write_held>>

\* Document(...) and self._documents.create(doc)
DocCreate(t) ==
    /\ spc[t] = "dc_create"
    /\ doc_items' = (made.doc + 1 :> sloc[t].lib) @@ doc_items
    /\ made' = [made EXCEPT !.doc = @ + 1]
    /\ SvcEnd(t)
    /\ UNCHANGED <<svcRest, versions, lib_items, chunk_items, write_held, scalls>>

\* DocumentService.delete: self._documents.delete(document_id)
DocDelete(t) ==
    /\ \E d \in 1..made.doc :
         /\ SvcBegin(t, "idle", IdleS)
         /\ doc_items' = IF d \in DOMAIN doc_items THEN Remove(doc_items, d) ELSE doc_items
    /\ UNCHANGED <<svcRest, versions, lib_items, chunk_items, made, write_held>>

\* ChunkService.create: self._libraries.get(library_id)
RefChunkCreateCall(t) ==
    /\ made.chunk + Cardinality({u \in SvcThreads : spc[u] \in {"cc_doc", "cc_validate",
                                                               "cc_lock", "cc_body"}})
          < MaxEntities
    /\ \E l \in 1..made.lib, d \in 1..made.doc :
         IF l \in lib_items
         THEN SvcBegin(t, "cc_doc", [IdleS EXCEPT !.lib = l, !.doc = d])
         ELSE SvcBegin(t, "idle", IdleS)
    /\ UNCHANGED <<svcRest, versions, lib_items, doc_items, chunk_items, made, write_held>>

\* self._documents.get(document_id)
RefChunkGetDoc(t) ==
    /\ spc[t] = "cc_doc"
    /\ IF sloc[t].doc \in DOMAIN doc_items
       THEN spc' = [spc EXCEPT ![t] = "cc_validate"] /\ UNCHANGED sloc
       ELSE SvcEnd(t)
    /\ UNCHANGED <<svcRest, versions, lib_items, doc_items, chunk_items, made, write_held,
                   scalls>>

\* _validate_embedding: self._libraries.get(library_id), with an embedding of
\* the library's dimension
RefChunkValidate(t) ==
    /\ spc[t] = "cc_validate"
    /\ IF sloc[t].lib \in lib_items
       THEN spc' = [spc EXCEPT ![t] = "cc_lock"] /\ UNCHANGED sloc
       ELSE SvcEnd(t)
    /\ UNCHANGED <<svcRest, versions, lib_items, doc_items, chunk_items, made, write_held,
                   scalls>>

\* ChunkService.delete: ch = self._chunks.get(chunk_id)
RefChunkDeleteCall(t) ==
    /\ \E c \in 1..made.chunk :
         IF c \in DOMAIN chunk_items
         THEN SvcBegin(t, "cd_lock", [IdleS EXCEPT !.chunk = c,
                                                   !.lib = chunk_items[c].library_id])
         ELSE SvcBegin(t, "idle", IdleS)
    /\ UNCHANGED <<svcRest, versions, lib_items, doc_items, chunk_items, made, write_held>>

\* lock.write_lock().__enter__ on the library's lock, which no reader is using
RefLock(t) ==
    /\ spc[t] \in {"cc_lock", "cd_lock"}
    /\ sloc[t].lib \notin DOMAIN write_held
    /\ write_held' = (sloc[t].lib :> t) @@ write_held
    /\ spc' = [spc EXCEPT ![t] = IF spc[t] = "cc_lock" THEN "cc_body" ELSE "cd_body"]
    /\ UNCHANGED <<svcRest, versions, lib_items, doc_items, chunk_items, made, sloc, scalls>>

\* ChunkService.create inside the write lock, and the release
RefChunkCreateBody(t) ==
    /\ spc[t] = "cc_body"
    /\ chunk_items' = (made.chunk + 1 :> [library_id |-> sloc[t].lib,
                                          document_id |-> sloc[t].doc]) @@ chunk_items
    /\ made' = [made EXCEPT !.chunk = @ + 1]
    /\ versions' = BumpData(versions, sloc[t].lib)
    /\ write_held' = Remove(write_held, sloc[t].lib)
    /\ SvcEnd(t)
    /\ UNCHANGED <<svcRest, lib_items, doc_items, scalls>>

\* ChunkService.delete inside the write lock (NotFound when the chunk is gone),
\* and the release
RefChunkDeleteBody(t) ==
    /\ spc[t] = "cd_body"
    /\ IF sloc[t].chunk \in DOMAIN chunk_items
       THEN /\ chunk_items' = Remove(chunk_items, sloc[t].chunk)
            /\ versions' = BumpData(versions, sloc[t].lib)
       ELSE UNCHANGED <<chunk_items, versions>>
    /\ write_held' = Remove(write_held, sloc[t].lib)
    /\ SvcEnd(t)
    /\ UNCHANGED <<svcRest, lib_items, doc_items, made, scalls>>

RefNext ==
    \E t \in SvcThreads :
       \/ LibCreate(t) \/ LibDeleteCall(t) \/ LibDeleteList(t) \/ LibDeleteNextDoc(t)
       \/ LibDeleteChunk(t) \/ LibDeleteDocument(t) \/ LibDeleteFinish(t)
       \/ DocCreateCall(t) \/ DocCreate(t) \/ DocDelete(t)
       \/ RefChunkCreateCall(t) \/ RefChunkGetDoc(t) \/ RefChunkValidate(t)
       \/ RefChunkDeleteCall(t) \/ RefLock(t) \/ RefChunkCreateBody(t)
       \/ RefChunkDeleteBody(t)

RefSpec == Init /\ [][RefNext]_vars

\* ------------------------------------------- the three index variants
\* A Python dict, with its insertion order: a sequence of <<key, value>>.
DictKeys(d) == {d[i][1] : i \in 1..Len(d)}
DictKeyList(d) == [i \in 1..Len(d) |-> d[i][1]]
DictValueList(d) == [i \in 1..Len(d) |-> d[i][2]]
DictGet(d, key) == d[CHOOSE i \in 1..Len(d) : d[i][1] = key][2]
\* d[key] = value: a present key keeps its place.
DictSet(d, key, value) ==
    IF key \in DictKeys(d)
    THEN [i \in 1..Len(d) |-> IF d[i][1] = key THEN <<key, value>> ELSE d[i]]
    ELSE Append(d, <<key, value>>)
DictDel(d, key) == SelectSeq(d, LAMBDA e : e[1] # key)

\* {key: value for ...} over a list of <<key, value>>
RECURSIVE DictOf(_)
DictOf(pairs) ==
    IF pairs = << >> THEN << >>
    ELSE LET last == pairs[Len(pairs)]
         IN DictSet(DictOf(SubSeq(pairs, 1, Len(pairs) - 1)), last[1], last[2])

\* list.sort(key=lambda x: x[0]) on a list of <<key, ...>>: stable.
InsertByKey(sorted, x) ==
    LET n == Cardinality({i \in 1..Len(sorted) : sorted[i][1] <= x[1]})
    IN SubSeq(sorted, 1, n) \o <<x>> \o SubSeq(sorted, n + 1, Len(sorted))

RECURSIVE SortByKey(_)
SortByKey(list) ==
    IF list = << >> THEN << >>
    ELSE InsertByKey(SortByKey(SubSeq(list, 1, Len(list) - 1)), list[Len(list)])

\* pairs.sort(key=lambda x: x[1], reverse=True) on a list of <<id, score>>:
\* descending, equal scores in their first order.
SortByScore(pairs) ==
    LET keyed == [i \in 1..Len(pairs) |-> <<0 - pairs[i][2], pairs[i]>>]
        sorted == SortByKey(keyed)
    IN [i \in 1..Len(sorted) |-> sorted[i][2]]

\* list[:n]
Prefix(list, n) == SubSeq(list, 1, Min(IF n < 0 THEN 0 ELSE n, Len(list)))

\* [(cid, cosine_similarity(q, v)) for ...] sorted, cut to k
ScoredTopK(idList, vecList, q, k) ==
    Prefix(SortByScore([i \in 1..Len(idList) |->
                          <<idList[i], cosine_similarity(q, vecList[i])>>]), k)

\* ---- BruteForceIndex (pre_normalize = True); _pos counts from 1 here
BfNew == [type |-> "brute_force", ids |-> << >>, vectors |-> << >>, pos |-> EmptyMap]

BfBuild(vectors, ids) ==
    [type |-> "brute_force",
     vectors |-> [i \in 1..Len(vectors) |-> normalize(vectors[i])],
     ids |-> ids,
     pos |-> [id \in {ids[i] : i \in 1..Len(ids)} |->
                CHOOSE i \in 1..Len(ids) :
                   ids[i] = id /\ \A j \in 1..Len(ids) : ids[j] = id => j <= i]]

BfAdd(b, vector, id) ==
    IF id \in DOMAIN b.pos
    THEN [raised |-> "ValueError", idx |-> b]
    ELSE [raised |-> "",
          idx |-> [b EXCEPT !.pos = (id :> Len(b.ids) + 1) @@ b.pos,
                            !.ids = Append(b.ids, id),
                            !.vectors = Append(b.vectors, normalize(vector))]]

\* A remove that swaps with the last element and leaves _pos as it was.
BfRemoveStalePos(b, id) ==
    IF id \notin DOMAIN b.pos
    THEN [raised |-> "KeyError", idx |-> b]
    ELSE LET idx == b.pos[id]
             last_idx == Len(b.ids)
             swappedIds == [b.ids EXCEPT ![idx] = b.ids[last_idx], ![last_idx] = b.ids[idx]]
             swappedVecs == [b.vectors EXCEPT ![idx] = b.vectors[last_idx],
                                              ![last_idx] = b.vectors[idx]]
         IN [raised |-> "",
             idx |-> [b EXCEPT !.ids = SubSeq(swappedIds, 1, last_idx - 1),
                               !.vectors = SubSeq(swappedVecs, 1, last_idx - 1),
                               !.pos = Remove(b.pos, id)]]

BfRemove(b, id) ==
    IF id \notin DOMAIN b.pos
    THEN [raised |-> "KeyError", idx |-> b]
    ELSE LET idx == b.pos[id]
             last_idx == Len(b.ids)
             swappedIds == [b.ids EXCEPT ![idx] = b.ids[last_idx], ![last_idx] = b.ids[idx]]
             swappedVecs == [b.vectors EXCEPT ![idx] = b.vectors[last_idx],
                                              ![last_idx] = b.vectors[idx]]
             pos1 == IF idx # last_idx THEN [b.pos EXCEPT ![swappedIds[idx]] = idx]
                     ELSE b.pos
         IN [raised |-> "",
             idx |-> [b EXCEPT !.ids = SubSeq(swappedIds, 1, last_idx - 1),
                               !.vectors = SubSeq(swappedVecs, 1, last_idx - 1),
                               !.pos = Remove(pos1, id)]]

BfUpdate(b, id, new_vector) ==
    IF id \notin DOMAIN b.pos
    THEN [raised |-> "KeyError", idx |-> b]
    ELSE [raised |-> "", idx |-> [b EXCEPT !.vectors[b.pos[id]] = normalize(new_vector)]]

\* pairs[: max(0, k)]
BfSearch(b, query, k) ==
    ScoredTopK(b.ids, b.vectors, normalize(query), IF k < 0 THEN 0 ELSE k)

BfSize(b) == Len(b.ids)

\* ---- KDTreeIndex; `pairs` is the code's list `items` of <<point, id>>
None == [nil |-> TRUE]
KdNew == [type |-> "kd_tree", root |-> None, size |-> 0, id_to_point |-> << >>]

\* items.sort(key=lambda x: x[0][axis]); axis counts from 0
SortByAxis(pairs, axis) ==
    LET sorted == SortByKey([i \in 1..Len(pairs) |-> <<pairs[i][1][axis + 1], pairs[i]>>])
    IN [i \in 1..Len(sorted) |-> sorted[i][2]]

RECURSIVE BuildRecursive(_, _)
BuildRecursive(pairs, depth) ==
    IF pairs = << >> THEN None
    ELSE LET axis == depth % Len(pairs[1][1])
             sorted == SortByAxis(pairs, axis)
             mid == Len(sorted) \div 2
         IN [point |-> sorted[mid + 1][1], id |-> sorted[mid + 1][2], axis |-> axis,
             left |-> BuildRecursive(SubSeq(sorted, 1, mid), depth + 1),
             right |-> BuildRecursive(SubSeq(sorted, mid + 2, Len(sorted)), depth + 1)]

\* build: the root's sort is done on the list the dict is then made from.
KdBuild(vectors, ids) ==
    IF vectors = << >> THEN KdNew
    ELSE LET pairs == [i \in 1..Len(vectors) |-> <<normalize(vectors[i]), ids[i]>>]
             sorted == SortByAxis(pairs, 0)
         IN [type |-> "kd_tree",
             root |-> BuildRecursive(pairs, 0),
             size |-> Len(pairs),
             id_to_point |-> DictOf([i \in 1..Len(sorted) |-> <<sorted[i][2], sorted[i][1]>>])]

\* add: a rebuild over the dict's entries and the new one, whatever the id
KdAdd(t, vector, id) ==
    [raised |-> "",
     idx |-> KdBuild(Append(DictValueList(t.id_to_point), normalize(vector)),
                     Append(DictKeyList(t.id_to_point), id))]

KdRemove(t, id) ==
    IF id \notin DictKeys(t.id_to_point)
    THEN [raised |-> "KeyError", idx |-> t]
    ELSE LET rest == DictDel(t.id_to_point, id)
         IN [raised |-> "", idx |-> KdBuild(DictValueList(rest), DictKeyList(rest))]

KdUpdate(t, id, new_vector) ==
    IF id \notin DictKeys(t.id_to_point)
    THEN [raised |-> "KeyError", idx |-> t]
    ELSE LET d == DictSet(t.id_to_point, id, normalize(new_vector))
         IN [raised |-> "", idx |-> KdBuild(DictValueList(d), DictKeyList(d))]

\* _distance_sq, in units of 1 / Unit^2
DistanceSq(a, b) == (a[1] - b[1]) * (a[1] - b[1]) + (a[2] - b[2]) * (a[2] - b[2])

\* _search_node: what `best`, a list of <<dist_sq, id>>, is when it returns
RECURSIVE SearchNode(_, _, _, _)
SearchNode(node, q, k, best) ==
    IF node = None THEN best
    ELSE LET added == SortByKey(Append(best, <<DistanceSq(q, node.point), node.id>>))
             best1 == IF Len(added) > k THEN SubSeq(added, 1, Len(added) - 1) ELSE added
             delta == q[node.axis + 1] - node.point[node.axis + 1]
             first == IF delta < 0 THEN node.left ELSE node.right
             second == IF delta < 0 THEN node.right ELSE node.left
             best2 == SearchNode(first, q, k, best1)
         IN IF Len(best2) < k \/ delta * delta < best2[Len(best2)][1]
            THEN SearchNode(second, q, k, best2)
            ELSE best2

\* search: <<id, 1 - dist_sq / 2>>, the score in units of 1 / (2 * Unit^2)
KdSearch(t, query, k) ==
    IF t.root = None \/ k <= 0 THEN << >>
    ELSE LET best == Prefix(SortByKey(SearchNode(t.root, normalize(query), k, << >>)), k)
         IN [i \in 1..Len(best) |-> <<best[i][2], 2 * Unit * Unit - best[i][1]>>]

KdSize(t) == t.size

\* ---- RandomHyperplaneLSHIndex; planes: whether _planes has been drawn
LshNew == [type |-> "lsh", planes |-> FALSE, buckets |-> EmptyMap, id_to_vec |-> << >>]

\* self._buckets.setdefault(key, []).append(id)
BucketAppend(buckets, key, id) ==
    (key :> (IF key \in DOMAIN buckets THEN Append(buckets[key], id) ELSE <<id>>)) @@ buckets

RECURSIVE LshFill(_, _, _)
LshFill(l, vectors, ids) ==
    IF vectors = << >> THEN l
    ELSE LET vn == normalize(Head(vectors))
         IN LshFill([l EXCEPT !.id_to_vec = DictSet(@, Head(ids), vn),
                              !.buckets = BucketAppend(@, LshHash(vn), Head(ids))],
                    Tail(vectors), Tail(ids))

LshBuild(vectors, ids) ==
    IF vectors = << >> THEN LshNew
    ELSE LshFill([LshNew EXCEPT !.planes = TRUE], vectors, ids)

LshAdd(l, vector, id) ==
    IF id \in DictKeys(l.id_to_vec)
    THEN [raised |-> "ValueError", idx |-> l]
    ELSE LET vn == normalize(vector)
         IN [raised |-> "",
             idx |-> [l EXCEPT !.id_to_vec = DictSet(@, id, vn),
                               !.planes = TRUE,
                               !.buckets = BucketAppend(@, LshHash(vn), id)]]

\* A remove that keeps the bucket it has emptied.
LshRemoveKeepsBucket(l, id) ==
    IF id \notin DictKeys(l.id_to_vec)
    THEN [raised |-> "KeyError", idx |-> l]
    ELSE LET key == LshHash(DictGet(l.id_to_vec, id))
         IN [raised |-> "",
             idx |-> [l EXCEPT !.id_to_vec = DictDel(@, id),
                               !.buckets = IF key \notin DOMAIN l.buckets THEN @
                                           ELSE [@ EXCEPT ![key] =
                                                    SelectSeq(@, LAMBDA i : i # id)]]]

LshRemove(l, id) ==
    IF id \notin DictKeys(l.id_to_vec)
    THEN [raised |-> "KeyError", idx |-> l]
    ELSE LET key == LshHash(DictGet(l.id_to_vec, id))
             bucket == IF key \in DOMAIN l.buckets THEN l.buckets[key] ELSE << >>
             left == SelectSeq(bucket, LAMBDA i : i # id)
         IN [raised |-> "",
             idx |-> [l EXCEPT !.id_to_vec = DictDel(@, id),
                               !.buckets = IF key \notin DOMAIN l.buckets THEN @
                                           ELSE IF left = << >> THEN Remove(@, key)
                                           ELSE [@ EXCEPT ![key] = left]]]

\* update: self.remove(id), then self.add(new_vector, id)
LshUpdate(l, id, new_vector) ==
    LET removed == LshRemove(l, id)
    IN IF removed.raised # "" THEN removed ELSE LshAdd(removed.idx, new_vector, id)

\* A search that scores the query's bucket and never falls back.
LshBucketOnly(l, q) ==
    LET key == LshHash(q)
    IN IF l.planes /\ key \in DOMAIN l.buckets THEN l.buckets[key] ELSE << >>

\* The ids search scores: the query's bucket, or every id when it is empty.
LshCandidateList(l, q) ==
    LET key == LshHash(q)
        bucket == IF l.planes /\ key \in DOMAIN l.buckets THEN l.buckets[key] ELSE << >>
    IN IF bucket = << >> THEN DictKeyList(l.id_to_vec) ELSE bucket

LshSearch(l, query, k) ==
    IF k <= 0 \/ l.id_to_vec = << >> THEN << >>
    ELSE LET q == normalize(query)
             candidates == LshCandidateList(l, q)
         IN ScoredTopK(candidates,
                       [i \in 1..Len(candidates) |-> DictGet(l.id_to_vec, candidates[i])], q, k)

LshSize(l) == Len(l.id_to_vec)

\* ---- VectorIndex: the call goes to the object's class
CreateIndex(itype) ==
    CASE itype = "brute_force" -> BfNew [] itype = "kd_tree" -> KdNew [] itype = "lsh" -> LshNew

build(idx, vectors, ids) ==
    CASE idx.type = "brute_force" -> BfBuild(vectors, ids)
      [] idx.type = "kd_tree" -> KdBuild(vectors, ids)
      [] idx.type = "lsh" -> LshBuild(vectors, ids)

add(idx, vector, id) ==
    CASE idx.type = "brute_force" -> BfAdd(idx, vector, id)
      [] idx.type = "kd_tree" -> KdAdd(idx, vector, id)
      [] idx.type = "lsh" -> LshAdd(idx, vector, id)

remove(idx, id) ==
    CASE idx.type = "brute_force" -> BfRemove(idx, id)
      [] idx.type = "kd_tree" -> KdRemove(idx, id)
      [] idx.type = "lsh" -> LshRemove(idx, id)

update(idx, id, new_vector) ==
    CASE idx.type = "brute_force" -> BfUpdate(idx, id, new_vector)
      [] idx.type = "kd_tree" -> KdUpdate(idx, id, new_vector)
      [] idx.type = "lsh" -> LshUpdate(idx, id, new_vector)

search(idx, query, k) ==
    CASE idx.type = "brute_force" -> BfSearch(idx, query, k)
      [] idx.type = "kd_tree" -> KdSearch(idx, query, k)
      [] idx.type = "lsh" -> LshSearch(idx, query, k)

size(idx) ==
    CASE idx.type = "brute_force" -> BfSize(idx)
      [] idx.type = "kd_tree" -> KdSize(idx)
      [] idx.type = "lsh" -> LshSize(idx)

\* The id -> vector map the object holds.
StoredIds(idx) ==
    CASE idx.type = "brute_force" -> DOMAIN idx.pos
      [] idx.type = "kd_tree" -> DictKeys(idx.id_to_point)
      [] idx.type = "lsh" -> DictKeys(idx.id_to_vec)

StoredVector(idx, id) ==
    CASE idx.type = "brute_force" -> idx.vectors[idx.pos[id]]
      [] idx.type = "kd_tree" -> DictGet(idx.id_to_point, id)
      [] idx.type = "lsh" -> DictGet(idx.id_to_vec, id)

\* ---- the callers of one index object
restVars == <<lockVars, verVars, repoVars, idxVars, allow_stale_index, extVars, pc, rloc, wop,
              bloc, writes, queries, ack, vmVars, refVars>>

\* Lists of distinct ids, as IndexService.build_index passes them.
IdLists == {l \in UNION {[1..n -> IxIds] : n \in 0..MaxBuild} :
              \A i, j \in 1..Len(l) : i # j => l[i] # l[j]}

\* IndexService._create_index
IxCreate ==
    /\ ix = NoIndex
    /\ \E itype \in IndexTypes : ix' = CreateIndex(itype)
    /\ UNCHANGED <<restVars, ixop, ixn>>

\* A call on the index object, of the MaxIxOps its caller makes.
IxCall == ix # NoIndex /\ ixn < MaxIxOps /\ ixn' = ixn + 1

IxBuild ==
    /\ IxCall
    /\ \E ids \in IdLists : \E vectors \in [1..Len(ids) -> IxVecs] :
         /\ ix' = build(ix, vectors, ids)
         /\ ixop' = [NoOp EXCEPT !.op = "build"]
    /\ UNCHANGED restVars

IxAdd ==
    /\ IxCall
    /\ \E id \in IxIds, v \in IxVecs :
         LET r == add(ix, v, id)
         IN /\ ix' = r.idx
            /\ ixop' = [NoOp EXCEPT !.op = "add", !.id = id, !.raised = r.raised]
    /\ UNCHANGED restVars

IxRemove ==
    /\ IxCall
    /\ \E id \in IxIds :
         LET r == remove(ix, id)
         IN /\ ix' = r.idx
            /\ ixop' = [NoOp EXCEPT !.op = "remove", !.id = id, !.raised = r.raised]
    /\ UNCHANGED restVars

IxUpdate ==
    /\ IxCall
    /\ \E id \in IxIds, v \in IxVecs :
         LET r == update(ix, id, v)
         IN /\ ix' = r.idx
            /\ ixop' = [NoOp EXCEPT !.op = "update", !.id = id, !.raised = r.raised]
    /\ UNCHANGED restVars

IxSearch ==
    /\ IxCall
    /\ \E q \in IxQueries, k \in IxKs :
         ixop' = [NoOp EXCEPT !.op = "search", !.res = search(ix, q, k)]
    /\ UNCHANGED <<restVars, ix>>

IxNext == IxCreate \/ IxBuild \/ IxAdd \/ IxRemove \/ IxUpdate \/ IxSearch

IndexSpec == Init /\ [][IxNext]_vars

\* ------------------------------------------------------------ LockRegistry
\* Everything of the services above.
baseVars == <<lockVars, verVars, repoVars, idxVars, allow_stale_index, pc, rloc, wop,
              bloc, writes, queries, ack, vmVars, refVars, ixVars>>
regRest == <<baseVars, rpVars, epVars>>

\* An acquire that does not look at the owner.
AcquireAnyway(t) == TRUE

\* RLock.acquire by thread t succeeds: nobody holds it, or t itself does.
RLockFree(t) == reg_lock \in {NoOwner, t}

\* A thread calls get_lock(library_id).
GetLockCall(t) ==
    /\ gpc[t] = "idle" /\ gcalls < MaxGetCalls
    /\ \E id \in RegIds : gloc' = [gloc EXCEPT ![t] = [IdleG EXCEPT !.library_id = id]]
    /\ gcalls' = gcalls + 1
    /\ gpc' = [gpc EXCEPT ![t] = "g_enter"]
    /\ UNCHANGED <<regRest, reg_locks, reg_lock, rwlocks, returned>>

\* with self._lock
GetLockEnter(t) ==
    /\ gpc[t] = "g_enter"
    /\ RLockFree(t)
    /\ reg_lock' = t
    /\ gpc' = [gpc EXCEPT ![t] = "g_get"]
    /\ UNCHANGED <<regRest, reg_locks, rwlocks, gloc, gcalls, returned>>

\* lock = self._locks.get(library_id); if lock is None
GetLockGet(t) ==
    /\ gpc[t] = "g_get"
    /\ LET id == gloc[t].library_id
       IN IF id \in DOMAIN reg_locks
          THEN /\ gloc' = [gloc EXCEPT ![t].lock = reg_locks[id]]
               /\ gpc' = [gpc EXCEPT ![t] = "g_return"]
          ELSE /\ gpc' = [gpc EXCEPT ![t] = "g_new"]
               /\ UNCHANGED gloc
    /\ UNCHANGED <<regRest, reg_locks, reg_lock, rwlocks, gcalls, returned>>

\* lock = RWLock(); self._locks[library_id] = lock
GetLockNew(t) ==
    /\ gpc[t] = "g_new"
    /\ rwlocks' = rwlocks + 1
    /\ gloc' = [gloc EXCEPT ![t].lock = rwlocks + 1]
    /\ reg_locks' = (gloc[t].library_id :> rwlocks + 1) @@ reg_locks
    /\ gpc' = [gpc EXCEPT ![t] = "g_return"]
    /\ UNCHANGED <<regRest, reg_lock, gcalls, returned>>

\* return lock, leaving the with block
GetLockReturn(t) ==
    /\ gpc[t] = "g_return"
    /\ returned' = returned \cup {<<gloc[t].library_id, gloc[t].lock>>}
    /\ reg_lock' = NoOwner
    /\ gloc' = [gloc EXCEPT ![t] = IdleG]
    /\ gpc' = [gpc EXCEPT ![t] = "idle"]
    /\ UNCHANGED <<regRest, reg_locks, rwlocks, gcalls>>

RegNext ==
    \E t \in RegThreads : GetLockCall(t) \/ GetLockEnter(t) \/ GetLockGet(t)
                           \/ GetLockNew(t) \/ GetLockReturn(t)

RegSpec == Init /\ [][RegNext]_vars

\* ------------------------------------- the repositories, used on their own
\* Each operator gives the repository after the call and what the call raised
\* or returned. LibraryRepository has no secondary index and
\* DocumentRepository no _by_document: their maps stay empty.
repoRest == <<baseVars, regVars, epVars>>

Outcome(repo, raised, res) == [repo |-> repo, raised |-> raised, res |-> res]

\* self._by_library[e.library_id].add(e.id), where the repository has the index
IndexAdded(kind, index, parent, id) ==
    IF parent = NoField \/ kind = "libraries" THEN index
    ELSE [index EXCEPT ![parent] = @ \cup {id}]

\* self._by_library[e.library_id].discard(e.id)
IndexDiscarded(kind, index, parent, id) ==
    IF parent = NoField \/ kind = "libraries" THEN index
    ELSE [index EXCEPT ![parent] = @ \ {id}]

\* A create that stores over what is there.
RepoCreateOver(kind, repo, e) ==
    Outcome([items |-> (e.id :> e) @@ repo.items,
             by_library |-> IndexAdded(kind, repo.by_library, e.library_id, e.id),
             by_document |-> IndexAdded(kind, repo.by_document, e.document_id, e.id)],
            "", {e})

\* create(entity)
RepoCreate(kind, repo, e) ==
    IF e.id \in DOMAIN repo.items
    THEN Outcome(repo, "ConflictError", {})
    ELSE Outcome([items |-> (e.id :> e) @@ repo.items,
                  by_library |-> IndexAdded(kind, repo.by_library, e.library_id, e.id),
                  by_document |-> IndexAdded(kind, repo.by_document, e.document_id, e.id)],
                 "", {e})

\* get(id)
RepoGet(kind, repo, id) ==
    IF id \notin DOMAIN repo.items
    THEN Outcome(repo, "NotFoundError", {})
    ELSE Outcome(repo, "", {repo.items[id]})

\* [self._items[i] for i in index.get(parent, set())]: KeyError on an id that
\* is not stored
Listing(repo, ids) ==
    IF ids \subseteq DOMAIN repo.items
    THEN Outcome(repo, "", {repo.items[i] : i \in ids})
    ELSE Outcome(repo, "KeyError", {})

\* list_by_library(library_id)
RepoListByLibrary(kind, repo, l) == Listing(repo, repo.by_library[l])

\* list_by_document(document_id)
RepoListByDocument(kind, repo, d) == Listing(repo, repo.by_document[d])

\* setattr(e, k, v) for the fields given that the entity has
SetFields(kind, e, l, d) ==
    [e EXCEPT !.library_id = IF l # NoField /\ @ # NoField THEN l ELSE @,
              !.document_id = IF d # NoField /\ @ # NoField THEN d ELSE @]

\* update(id, library_id=l, document_id=d): fields of no bearing on the
\* repository's maps are left out
RepoUpdate(kind, repo, id, l, d) ==
    IF id \notin DOMAIN repo.items
    THEN Outcome(repo, "NotFoundError", {})
    ELSE LET e == SetFields(kind, repo.items[id], l, d)
         IN Outcome([repo EXCEPT !.items[id] = e], "", {e})

\* delete(id)
RepoDelete(kind, repo, id) ==
    IF id \notin DOMAIN repo.items
    THEN Outcome(repo, "NotFoundError", {})
    ELSE LET e == repo.items[id]
         IN Outcome([items |-> Remove(repo.items, id),
                     by_library |-> IndexDiscarded(kind, repo.by_library, e.library_id, id),
                     by_document |-> IndexDiscarded(kind, repo.by_document, e.document_id, id)],
                    "", {})

\* {e.id: e for e in entities}: the last one of an id stays
RECURSIVE DictById(_)
DictById(es) ==
    IF es = << >> THEN EmptyMap
    ELSE (es[Len(es)].id :> es[Len(es)]) @@ DictById(SubSeq(es, 1, Len(es) - 1))

\* replace_all(entities)
RepoReplaceAll(kind, repo, es) ==
    LET all == {es[n] : n \in 1..Len(es)}
    IN Outcome([items |-> DictById(es),
                by_library |-> [l \in RepoIds |->
                                  IF kind = "libraries" THEN {}
                                  ELSE {e.id : e \in {x \in all : x.library_id = l}}],
                by_document |-> [d \in RepoIds |->
                                   IF kind # "chunks" THEN {}
                                   ELSE {e.id : e \in {x \in all : x.document_id = d}}]],
               "", {})

\* A call on a repository: its outcome is recorded.
RepoCall(kind, op, id, out) ==
    /\ rn < MaxRepoOps
    /\ rn' = rn + 1
    /\ repos' = [repos EXCEPT ![kind] = out.repo]
    /\ rop' = [kind |-> kind, op |-> op, id |-> id, raised |-> out.raised, res |-> out.res]
    /\ UNCHANGED repoRest

RepoCreateCall ==
    \E kind \in RepoKinds : \E e \in EntitiesOf(kind) :
        RepoCall(kind, "create", e.id, RepoCreate(kind, repos[kind], e))

RepoGetCall ==
    \E kind \in RepoKinds, id \in RepoIds :
        RepoCall(kind, "get", id, RepoGet(kind, repos[kind], id))

RepoListCall ==
    \/ \E kind \in {"documents", "chunks"}, l \in RepoIds :
          RepoCall(kind, "list_by_library", l, RepoListByLibrary(kind, repos[kind], l))
    \/ \E d \in RepoIds :
          RepoCall("chunks", "list_by_document", d,
                   RepoListByDocument("chunks", repos["chunks"], d))

RepoUpdateCall ==
    \E kind \in RepoKinds, id \in RepoIds, l \in RepoIds \cup {NoField},
       d \in RepoIds \cup {NoField} :
        RepoCall(kind, "update", id, RepoUpdate(kind, repos[kind], id, l, d))

RepoDeleteCall ==
    \E kind \in RepoKinds, id \in RepoIds :
        RepoCall(kind, "delete", id, RepoDelete(kind, repos[kind], id))

\* The lists replace_all is given are the entities of a snapshot, one per id.
Snapshots(kind) ==
    {es \in UNION {[1..n -> EntitiesOf(kind)] : n \in 0..MaxReplace} :
        \A m \in 1..Len(es), n \in 1..Len(es) : es[m].id = es[n].id => m = n}

RepoReplaceAllCall ==
    \E kind \in RepoKinds : \E es \in Snapshots(kind) :
        RepoCall(kind, "replace_all", 0, RepoReplaceAll(kind, repos[kind], es))

RepoNext ==
    \/ RepoCreateCall \/ RepoGetCall \/ RepoListCall \/ RepoUpdateCall
    \/ RepoDeleteCall \/ RepoReplaceAllCall

RepoSpec == Init /\ [][RepoNext]_vars

\* ---------------------------------------------------------- specification
\* The threads of the index service's callers, with `pool` the threads that can
\* run build_index.
KnnNext(pool) ==
    \E r \in Readers : KnnStart(r) \/ KnnWake(r) \/ KnnFiltered(r) \/ KnnUnfiltered(r)
                       \/ KnnSpawn(r, pool)
                       \/ KnnSearch(r) \/ KnnReturn(r)

ChunkNext == \E w \in Writers : ChunkCall(w) \/ ChunkWake(w) \/ ChunkBody(w)

BuildNext ==
    \E b \in Builders : BuildAcquireRead(b) \/ BuildReadWake(b) \/ BuildSnapshot(b)
                        \/ BuildFail(b) \/ BuildConstruct(b) \/ BuildWriteWake(b)
                        \/ BuildPublish(b)

\* Readers, a writer and the callers of the index service, one build at a time.
Next ==
    \/ KnnNext(MainPool)
    \/ ChunkNext
    \/ BuildNext
    \/ SyncBuild(MainPool)
    \/ BuildAsyncCall(MainPool)

Spec == Init /\ [][Next]_vars

\* The callers of build_index_async (knn readers, the build endpoint) on a
\* library nobody writes to, with a thread for every call.
RaceNext ==
    \/ KnnNext(Builders)
    \/ BuildNext
    \/ BuildAsyncCall(Builders)

RaceSpec == Init /\ [][RaceNext]_vars

\* A library whose only index builds are the ones its unfiltered knn queries
\* schedule, of the type it has: no build fails. Every thread that can take a
\* step eventually takes one; no new chunk call has to start.
KnnStep(r) ==
    KnnStart(r) \/ KnnWake(r) \/ KnnUnfiltered(r) \/ KnnSpawn(r, MainPool) \/ KnnSearch(r)
    \/ KnnReturn(r)

BuildStep(b) ==
    BuildAcquireRead(b) \/ BuildReadWake(b) \/ BuildSnapshot(b) \/ BuildConstruct(b)
    \/ BuildWriteWake(b) \/ BuildPublish(b)

LiveNext ==
    \/ \E r \in Readers : KnnStep(r)
    \/ ChunkNext
    \/ \E b \in MainPool : BuildStep(b)

LiveSpec ==
    /\ Init /\ [][LiveNext]_vars
    /\ \A r \in Readers : WF_vars(KnnStep(r))
    /\ \A b \in MainPool : WF_vars(BuildStep(b))
    /\ \A w \in Writers : WF_vars(ChunkWake(w) \/ ChunkBody(w))

\* The same library with the callers of build_index_async as well, whose
\* builds can fail.
BuildRun(b) == BuildStep(b) \/ BuildFail(b)

\* A direct call of build_index_async.  One that falls between a knn's look at
\* the building flag and its own call makes that call the no-op it would have
\* been had the direct call come first, so it is taken before or after.
DirectBuild == (\A r \in Readers : pc[r] # "r_spawn") /\ BuildAsyncCall(MainPool)

RebuildNext ==
    \/ \E r \in Readers : KnnStep(r)
    \/ ChunkNext
    \/ \E b \in MainPool : BuildRun(b)
    \/ DirectBuild

RebuildSpec ==
    /\ Init /\ [][RebuildNext]_vars
    /\ \A r \in Readers : WF_vars(KnnStep(r))
    /\ \A b \in MainPool : WF_vars(BuildRun(b))
    /\ \A w \in Writers : WF_vars(ChunkWake(w) \/ ChunkBody(w))

\* A library whose chunks differ in text, queried with filters only, while its
\* index is built, patched and left stale.
FilterNext ==
    \/ \E r \in Readers : KnnStart(r) \/ KnnWake(r) \/ KnnFilteredWith(r, Filters)
                           \/ KnnReturn(r)
    \/ \E w \in Writers : ChunkCallWith(w, FilterTexts) \/ ChunkWake(w) \/ ChunkBody(w)
    \/ BuildNext
    \/ SyncBuild(MainPool)
    \/ BuildAsyncCall(MainPool)

FilterSpec == Init /\ [][FilterNext]_vars

\* POST /libraries/{id}/index:build with index_type T: the chunks are listed,
\* build_index_async is called, which returns at once when a build is flagged,
\* and the answer is {"status": "building", "index_type": T} either way. A
\* request that falls between a knn's look at the building flag and its own
\* call is taken before or after.
BuildEndpoint(pool) ==
    /\ Len(accepted) < MaxRequests
    /\ \A r \in Readers : pc[r] # "r_spawn"
    /\ \E itype \in IndexTypes :
         /\ accepted' = Append(accepted, itype)
         /\ IF IsBuilding
            THEN UNCHANGED <<building, bloc, pc>>
            ELSE /\ FreeBuilders(pool) # {}
                 /\ building' = (Lib :> TRUE) @@ building
                 /\ StartBuild(FirstFree(pool), itype, items, TRUE)
                 /\ pc' = [pc EXCEPT ![FirstFree(pool)] = "b_start"]
    /\ UNCHANGED <<lockVars, verVars, repoVars, indexes, index_types, allow_stale_index,
                   vmVars, refVars, ixVars, regVars, rpVars, queries, rloc, wop, writes,
                   ack>>

\* A library with the clients of the build endpoint and of the chunk service.
EndpointNext ==
    \/ ChunkNext
    \/ \E b \in MainPool : BuildStep(b)
    \/ BuildEndpoint(MainPool)

EndpointSpec ==
    /\ Init /\ [][EndpointNext]_vars
    /\ \A b \in MainPool : WF_vars(BuildStep(b))
    /\ \A w \in Writers : WF_vars(ChunkWake(w) \/ ChunkBody(w))

\* Clients that make MaxQueries knn calls and MaxWrites chunk calls in all, and
\* the background builds their queries start, each on a thread of its own. A
\* call that has started goes on whenever it can take a step.
KnnProgress(r) ==
    KnnWake(r) \/ KnnFiltered(r) \/ KnnUnfiltered(r) \/ KnnSpawn(r, Builders)
    \/ KnnSearch(r) \/ KnnReturn(r)

ChunkProgress(w) == ChunkWake(w) \/ ChunkBody(w)

FiniteNext ==
    \/ \E r \in Readers : KnnStartCounted(r) \/ KnnProgress(r)
    \/ ChunkNext
    \/ \E b \in Builders : BuildStep(b)

FiniteSpec ==
    /\ Init /\ [][FiniteNext]_vars
    /\ \A r \in Readers : WF_vars(KnnProgress(r))
    /\ \A w \in Writers : WF_vars(ChunkProgress(w))
    /\ \A b \in Builders : WF_vars(BuildStep(b))

\* ------------------------------------------------------------ properties
WriteHolders == {t \in Threads : pc[t] \in {"w_body", "b_publish"}}
KnnReadSection == {"r_body", "r_spawn", "r_search", "r_release"}
ReadHolders == {t \in Threads : pc[t] \in KnnReadSection \cup {"b_read"}}
Running == {b \in Builders : pc[b] # "idle"}
IndexRef == IF HasIndex THEN indexes[Lib].ref ELSE -1

\* C1: whenever no thread holds the library's write lock, the library has no
\* resident index or the resident index holds exactly the ids of the chunks
\* stored for the library.
C1_IndexMatchesChunks ==
    ~writer_active => (~HasIndex \/ IndexIds(indexes[Lib]) = items)

\* C2: a build that publishes after a chunk write committed since its snapshot
\* leaves the library stale (index_version # data_version) right after the
\* publish.
C2_LatePublishIsStale ==
    [][\A b \in Builders :
         (pc[b] = "b_publish" /\ pc'[b] = "idle" /\ data_version > bloc[b].snap_version)
            => index_version' # data_version']_vars

\* C3: every id a knn query (filtered or not) is about to return while it holds
\* the read lock is the id of a chunk stored for the library; a deleted chunk
\* is never returned.
C3_KnnReturnsStoredIds ==
    \A r \in Readers : pc[r] = "r_release" => rloc[r].res \subseteq items

\* C4: a reader that has searched the resident index under the read lock sees
\* every chunk write that succeeded on a library with a resident index: a
\* created or re-embedded chunk is in the index with its new vector, a deleted
\* one is not in it.
C4_WritesVisibleToReaders ==
    \A r \in Readers :
       (pc[r] = "r_release" /\ rloc[r].src = "resident" /\ HasIndex) =>
          \A i \in ChunkIds :
             /\ ack[i].state = "live" =>
                   (i \in IndexIds(indexes[Lib]) /\ indexes[Lib].vecs[i] = ack[i].embedding)
             /\ ack[i].state = "deleted" => i \notin IndexIds(indexes[Lib])

\* C5: once chunk writes stop, with builds that do not fail and unfiltered knn
\* queries that keep arriving, the resident index eventually holds exactly the
\* ids of the stored chunks, and stays so.
C5_Converges ==
    <>[](HasIndex /\ IndexIds(indexes[Lib]) = items)

\* C6: at no time are two threads inside build_index for the library.
C6_OneBuildAtATime == Cardinality(Running) <= 1

\* C7: when a build started by build_index_async ends, by success or by
\* failure, the library's building flag is false.
C7_FlagClearedWhenBuildEnds ==
    [][\A b \in Builders :
         (pc[b] # "idle" /\ pc'[b] = "idle" /\ bloc[b].async) => ~IsBuilding']_vars

\* C8: a build_index that ends without reaching its swap leaves the resident
\* index, the recorded index type, index_version and data_version as they
\* were.
C8_FailedBuildChangesNothing ==
    [][\A b \in Builders :
         (pc[b] \notin {"idle", "b_publish"} /\ pc'[b] = "idle")
            => UNCHANGED <<indexes, index_types, index_version, data_version>>]_vars

\* A background build has failed on a library that keeps its resident index:
\* the flag is set and no thread is in build_index or about to start one.
C8_Witness ==
    /\ HasIndex /\ IsBuilding /\ Running = {}
    /\ \A r \in Readers : pc[r] # "r_spawn"

\* C9: the resident index changes only while the write lock is held and no knn
\* query is inside its read-locked section; the index a build installs is a
\* new object, complete over the build's snapshot.
C9_SwapUnderWriteLock ==
    [][indexes' # indexes =>
         /\ writer_active /\ readers = 0
         /\ \A r \in Readers : pc[r] \notin KnnReadSection
         /\ IndexRef' # IndexRef =>
               \E b \in Builders :
                  /\ pc[b] = "b_publish" /\ pc'[b] = "idle" /\ bloc[b].built
                  /\ indexes'[Lib].vecs = bloc[b].vecs]_vars

\* A knn query is returning what it found in an index that replaced an earlier
\* one.
C9_Witness ==
    /\ HasIndex /\ indexes[Lib].ref = 1
    /\ \E r \in Readers : pc[r] = "r_release" /\ rloc[r].src = "resident"

\* C10: at most one thread holds the write side of the lock, and none holds the
\* read side while one does: writer_active implies readers = 0, and readers is
\* never negative.
C10_MutualExclusion ==
    /\ Cardinality(WriteHolders) <= 1
    /\ WriteHolders # {} => ReadHolders = {}
    /\ writer_active => readers = 0
    /\ readers >= 0

\* A thread holds the write lock while another waits to write and a reader
\* waits to read.
C10_Witness ==
    /\ WriteHolders # {}
    /\ \E t \in Threads : pc[t] \in {"w_wait", "b_wwait"}
    /\ \E r \in Readers : pc[r] = "r_wait"

\* C11: while a thread waits in acquire_write no thread enters a read section,
\* and a waiting writer stops waiting only by taking the lock: a reader that
\* arrives behind a waiting writer gets in after that writer has held the lock.
C11_WriterPreference ==
    [][/\ writers_waiting > 0 => ReadHolders' \subseteq ReadHolders
       /\ writers_waiting' < writers_waiting => (~writer_active /\ writer_active')]_vars

\* A reader waits behind a waiting writer while another thread reads and no
\* writer is active.
C11_Witness ==
    /\ writers_waiting > 0 /\ ~writer_active /\ readers > 0
    /\ \E r \in Readers : pc[r] = "r_wait"

\* A thread runs acquire_read's test: on arrival, or awake after a wait().
AttemptsRead(t) ==
    \/ t \in Readers /\ pc[t] = "idle" /\ pc'[t] # "idle"
    \/ pc[t] = "b_start" /\ pc'[t] # "b_start"
    \/ /\ pc[t] \in {"r_wait", "b_rwait"} /\ t \notin sleeping
       /\ (pc'[t] # pc[t] \/ t \in sleeping')

\* C12: with no writer active and none waiting, acquire_read gets in at once
\* whatever the number of readers inside; readers counts the threads in a read
\* section, and a thread at the end of its section can always leave it.
C12_ReadersShare ==
    /\ [](readers = Cardinality(ReadHolders))
    /\ [](\A r \in Readers : pc[r] = "r_release" => ENABLED KnnReturn(r))
    /\ [][\A t \in Readers \cup Builders :
            (AttemptsRead(t) /\ ~writer_active /\ writers_waiting = 0)
               => (pc'[t] \in {"r_body", "b_read"} /\ readers' = readers + 1)]_vars

\* Two threads are in a read section at once.
C12_Witness == Cardinality(ReadHolders) >= 2 /\ readers = 2

WaitPcs == {"r_wait", "w_wait", "b_rwait", "b_wwait"}
EntryPcs == {"r_body", "w_body", "b_read", "b_publish"}

\* A thread asks for the lock: it starts to wait for it or gets it.
RequestsLock(t) == pc'[t] # pc[t] /\ pc'[t] \in WaitPcs \cup EntryPcs

\* Some call is under way and none of the threads in a call can take a step.
AllBlocked ==
    /\ \E t \in Threads : pc[t] # "idle"
    /\ ~ENABLED ((\E r \in Readers : KnnProgress(r)) \/ (\E w \in Writers : ChunkProgress(w))
                 \/ (\E b \in Builders : BuildStep(b)))

\* C13: with finitely many knn and chunk calls and the builds they start, under
\* fair scheduling every call returns; no thread asks for the lock while it
\* holds it, and the threads in a call are never all blocked.
C13_AllCallsReturn ==
    /\ \A t \in Threads : (pc[t] # "idle") ~> (pc[t] = "idle")
    /\ []~AllBlocked
    /\ [][\A t \in Threads :
            RequestsLock(t) => t \notin ReadHolders \cup WriteHolders]_vars

\* Every call has been made and has returned, the builds included.
C13_Witness ==
    /\ queries = MaxQueries /\ writes = MaxWrites
    /\ \A t \in Threads : pc[t] = "idle"
    /\ HasIndex

\* A chunk call leaves its write-locked section.
LeavesWriteSection(w) == pc[w] = "w_body" /\ pc'[w] = "idle"

\* C15: on a library with a resident index, a chunk call that reaches
\* add_chunk, update_chunk or remove_chunk ends with index_version equal to
\* data_version; index_version never decreases.
C15_PatchSyncsVersion ==
    [][/\ \A w \in Writers :
            (LeavesWriteSection(w) /\ HasIndex /\ CallsIndexPatch(w))
               => index_version' = data_version'
       /\ index_version' >= index_version]_vars

\* C16: a chunk create, update (of text, embedding or both) or delete that
\* succeeds on a library with a resident index and no build in flight releases
\* the write lock with index_version equal to data_version.
C16_MutationSyncsVersion ==
    [][\A w \in Writers :
         (/\ LeavesWriteSection(w) /\ ~ChunkRaises(w)
          /\ HasIndex /\ ~IsBuilding /\ Running = {})
            => index_version' = data_version']_vars

\* C17: -1 <= index_version <= data_version and data_version >= 0 in every
\* state, and neither counter ever decreases.
C17_VersionOrder ==
    /\ [](-1 <= index_version /\ index_version <= data_version /\ data_version >= 0)
    /\ [][data_version' >= data_version /\ index_version' >= index_version]_vars

\* The resident index lags behind the data after having been built.
C17_Witness == HasIndex /\ 0 <= index_version /\ index_version < data_version

\* A create is turned down before the lock: the call is over and no thread has
\* moved.
CreateRejected == writes' # writes /\ pc' = pc

\* An update with an embedding of the wrong length leaves the write lock.
UpdateRejected(w) ==
    /\ LeavesWriteSection(w) /\ wop[w].kind = "update"
    /\ wop[w].embedding # NoVec /\ Len(wop[w].embedding) # embedding_dimension

\* C19: a chunk create or update with an embedding of the wrong length leaves
\* the chunks, data_version, index_version and the resident index as they were;
\* every stored chunk's embedding has the library's dimension.
C19_BadEmbeddingRejected ==
    /\ [](\A i \in items : Len(chunk[i].embedding) = embedding_dimension)
    /\ [][(CreateRejected \/ \E w \in Writers : UpdateRejected(w))
            => UNCHANGED <<items, chunk, data_version, index_version, indexes>>]_vars

\* Every chunk call has been made and none has stored a chunk: each was a
\* create with an embedding of the wrong length.
C19_Witness ==
    /\ writes = MaxWrites /\ DOMAIN chunk = {} /\ items = {}
    /\ \A w \in Writers : pc[w] = "idle"

\* C18: a library's first access starts it at (0, -1); data_version is the
\* number of bump_data calls made on the library, whatever their interleaving;
\* is_index_stale answers index_version # data_version; a call changes the
\* versions of the library it names only.
C18_VersionManagerAtomic ==
    /\ [](\A l \in DOMAIN versions : versions[l].data_version = bumped[l])
    /\ [][\A l \in LibIds :
            /\ (l \notin DOMAIN versions /\ l \in DOMAIN versions')
                  => versions'[l] = NewVersionInfo
            /\ (l \in DOMAIN versions /\ versions'[l] # versions[l])
                  => \E t \in VmThreads : vloc[t].lib = l /\ vpc'[t] # vpc[t]]_vars
    /\ [][\A t \in VmThreads :
            (vloc[t].op = "is_index_stale" /\ vpc[t] = "v_body" /\ vpc'[t] = "v_release")
               => vloc'[t].ret = (versions'[vloc[t].lib].index_version
                                     # versions'[vloc[t].lib].data_version)]_vars

\* Two bump_data calls on one library have returned, and the other library has
\* been accessed too.
C18_Witness ==
    /\ vm_lock = NoOwner /\ DOMAIN versions = LibIds
    /\ \E l \in LibIds : bumped[l] = 2 /\ versions[l].data_version = 2

\* What the chunk and document repositories store for a library.
ContentsOf(l) ==
    <<{d \in DOMAIN doc_items : doc_items[d] = l},
      {c \in DOMAIN chunk_items : chunk_items[c].library_id = l}>>

\* C14: the documents and chunks stored for a library change only in a step of
\* the thread that holds the library's write lock.
C14_MutationsUnderWriteLock ==
    [][\A l \in 1..MaxEntities :
         ContentsOf(l)' # ContentsOf(l)
            => (l \in DOMAIN write_held /\ spc'[write_held[l]] # spc[write_held[l]])]_vars

\* C20: when no service call is under way, every stored chunk's library_id and
\* document_id and every stored document's library_id name stored entities.
C20_ReferentialIntegrity ==
    (\A t \in SvcThreads : spc[t] = "idle") =>
       /\ \A c \in DOMAIN chunk_items :
             /\ chunk_items[c].library_id \in lib_items
             /\ chunk_items[c].document_id \in DOMAIN doc_items
       /\ \A d \in DOMAIN doc_items : doc_items[d] \in lib_items

\* LibraryService.delete returns: its last call, self._libraries.delete, found
\* the library.
LibDeleteReturns(t) ==
    spc[t] = "ld_lib" /\ sloc[t].lib \in lib_items /\ spc'[t] = "idle"

\* A thread inside LibraryService.delete takes a step.
LibDeleteSteps(t) ==
    spc[t] \in {"ld_list", "ld_doc", "ld_chunks", "ld_lib"}
    /\ <<spc[t], sloc[t]>>' # <<spc[t], sloc[t]>>

\* C21: when LibraryService.delete(L) returns, L is not stored and no document
\* and no chunk with library_id L is stored; no step of the delete changes the
\* libraries, documents or chunks of another library.
C21_CascadeDelete ==
    [][\A t \in SvcThreads :
         /\ LibDeleteReturns(t) =>
               /\ sloc[t].lib \notin lib_items'
               /\ ContentsOf(sloc[t].lib)' = <<{}, {}>>
         /\ LibDeleteSteps(t) =>
               \A l \in 1..MaxEntities \ {sloc[t].lib} :
                  /\ ContentsOf(l)' = ContentsOf(l)
                  /\ (l \in lib_items') = (l \in lib_items)]_vars

\* C22: in every index variant, add with an id the index holds fails with
\* Duplicate (ValueError) and leaves the index as it was.
C22_DuplicateAddRejected ==
    ix # NoIndex =>
       \A id \in StoredIds(ix), v \in IxVecs :
          add(ix, v, id).raised = "ValueError" /\ add(ix, v, id).idx = ix

\* C23: in every index variant, remove and update with an id the index does
\* not hold fail with NotFound (KeyError) and leave the index as it was; update
\* with an id it holds replaces that id's vector and leaves the other vectors,
\* the id set and size() as they were.
C23_AbsentIdRejected ==
    ix # NoIndex =>
       /\ \A id \in IxIds \ StoredIds(ix), v \in IxVecs :
             /\ remove(ix, id).raised = "KeyError" /\ remove(ix, id).idx = ix
             /\ update(ix, id, v).raised = "KeyError" /\ update(ix, id, v).idx = ix
       /\ \A id \in StoredIds(ix), v \in IxVecs :
             LET u == update(ix, id, v)
             IN /\ u.raised = ""
                /\ StoredIds(u.idx) = StoredIds(ix)
                /\ size(u.idx) = size(ix)
                /\ StoredVector(u.idx, id) = normalize(v)
                /\ \A j \in StoredIds(ix) \ {id} :
                      StoredVector(u.idx, j) = StoredVector(ix, j)

\* The ids of a search result, in order.
ResultIds(res) == [i \in 1..Len(res) |-> res[i][1]]

\* C24: in every index variant and every state, search(q, k) returns at most k
\* pairs, by non-increasing score, no id twice; nothing when k <= 0 or the index
\* is empty; brute force and KD-tree return exactly min(k, size()) pairs.
C24_SearchShape ==
    ix # NoIndex =>
       \A q \in IxQueries, k \in IxKs \cup {-1} :
          LET res == search(ix, q, k)
          IN /\ Len(res) <= (IF k < 0 THEN 0 ELSE k)
             /\ \A i, j \in 1..Len(res) :
                   i < j => (res[i][2] >= res[j][2] /\ res[i][1] # res[j][1])
             /\ (k <= 0 \/ size(ix) = 0) => res = << >>
             /\ ix.type # "lsh" => Len(res) = Min(IF k < 0 THEN 0 ELSE k, size(ix))

\* build_index returns: the swap is done.
BuildCompletes(b) == pc[b] = "b_publish" /\ pc'[b] = "idle"

\* C25: when a build of the library's index completes, of whatever type, the
\* ids search(q, k) returns for k at least the number of chunks are exactly the
\* ids of the chunks stored for the library, for every query q.
C25_SearchAllReturnsAll ==
    [][\A b \in Builders :
         BuildCompletes(b) =>
            \A q \in VecVals : \A S \in IndexSearch(indexes'[Lib], q, MaxChunks) :
               S = items']_vars

\* The stored points are at pairwise distinct distances from the query.
DistinctDistances(t, q) ==
    \A i, j \in 1..Len(t.id_to_point) :
       i # j => DistanceSq(normalize(q), t.id_to_point[i][2])
                   # DistanceSq(normalize(q), t.id_to_point[j][2])

\* A BruteForceIndex built over what the KD-tree holds.
BruteForceOver(t) == BfBuild(DictValueList(t.id_to_point), DictKeyList(t.id_to_point))

\* C26: for every state of a KD-tree reached by build, add, remove and update
\* and every query at pairwise distinct distances from the stored points,
\* KDTreeIndex.search(q, k) returns the ids BruteForceIndex.search(q, k) returns
\* over the same data, in the same order.
C26_KdTreeExact ==
    ix.type = "kd_tree" =>
       \A q \in IxQueries, k \in IxKs :
          DistinctDistances(ix, q) =>
             ResultIds(KdSearch(ix, q, k)) = ResultIds(BfSearch(BruteForceOver(ix), q, k))

\* The ids in the bucket of the query's hash.
QueryBucket(l, q) ==
    LET key == LshHash(normalize(q))
    IN IF key \in DOMAIN l.buckets THEN {l.buckets[key][i] : i \in 1..Len(l.buckets[key])}
       ELSE {}

\* A brute force over everything the LSH index holds.
ExactTopK(l, q, k) ==
    ScoredTopK(DictKeyList(l.id_to_vec), DictValueList(l.id_to_vec), normalize(q), k)

\* The best score any stored vector has against the query.
IsBestScore(l, q, score) ==
    \A i \in 1..Len(l.id_to_vec) : cosine_similarity(normalize(q), l.id_to_vec[i][2]) <= score

\* C27: an LSH index that holds an id answers search(q, k), k >= 1, with a
\* non-empty list; when the query's bucket is empty the answer is the exact
\* top k over all ids, its first element a nearest id; when the bucket is not
\* empty every id returned is in it. Every id held is in the bucket of its
\* vector and in no other.
C27_LshFallback ==
    (ix.type = "lsh" /\ size(ix) > 0) =>
       /\ \A id \in StoredIds(ix), key \in DOMAIN ix.buckets :
             (\E i \in 1..Len(ix.buckets[key]) : ix.buckets[key][i] = id)
                <=> key = LshHash(StoredVector(ix, id))
       /\ \A q \in IxQueries, k \in IxKs \ {0} :
             LET res == LshSearch(ix, q, k)
             IN /\ res # << >>
                /\ QueryBucket(ix, q) = {} =>
                      (res = ExactTopK(ix, q, k) /\ IsBestScore(ix, q, res[1][2]))
                /\ QueryBucket(ix, q) # {} =>
                      \A i \in 1..Len(res) : res[i][1] \in QueryBucket(ix, q)

\* A search has just fallen back to the scan of all ids, on an index whose
\* other queries find their bucket.
C27_Witness ==
    /\ ix.type = "lsh" /\ size(ix) >= 2
    /\ ixop.op = "search" /\ Len(ixop.res) >= 2
    /\ \E q \in IxQueries : QueryBucket(ix, q) = {}
    /\ \E q \in IxQueries : QueryBucket(ix, q) # {}
    /\ \E i, j \in 1..Len(ixop.res) :
          LshHash(StoredVector(ix, ixop.res[i][1])) # LshHash(StoredVector(ix, ixop.res[j][1]))

\* What a caller can see of an index: its ids, their vectors, size() and the
\* answer to every search.
Observable(idx) ==
    [ids |-> StoredIds(idx),
     vectors |-> [id \in StoredIds(idx) |-> StoredVector(idx, id)],
     size |-> size(idx),
     results |-> [q \in IxQueries, k \in IxKs |-> search(idx, q, k)]]

\* C28: in every index variant and every state, add(v, id) of an id the index
\* does not hold followed by remove(id) leaves what a caller can see of the
\* index as it was.
C28_AddRemoveRoundTrip ==
    ix # NoIndex =>
       \A id \in IxIds \ StoredIds(ix), v \in IxVecs :
          LET added == add(ix, v, id)
              removed == remove(added.idx, id)
          IN /\ added.raised = "" /\ removed.raised = ""
             /\ Observable(removed.idx) = Observable(ix)

\* C29: when a synchronous build_index returns, the library has a resident
\* index, a new object over the ids and vectors of the chunks it was given;
\* the recorded type is the requested one, index_version equals data_version,
\* the building flag is false, and a search on the library gets what the new
\* index answers.
C29_SyncBuildInstalls ==
    [][\A b \in Builders :
         (BuildCompletes(b) /\ ~bloc[b].async) =>
            /\ HasIndex' /\ IndexRef' # IndexRef
            /\ IndexIds(indexes'[Lib]) = DOMAIN bloc[b].vecs
            /\ indexes'[Lib].vecs = bloc[b].vecs
            /\ indexes'[Lib].type = bloc[b].itype
            /\ index_types'[Lib] = bloc[b].itype
            /\ index_version' = data_version' /\ ~is_index_stale'
            /\ ~IsBuilding'
            /\ \A q \in VecVals, k \in Ks :
                  IndexSearch(indexes'[Lib], q, k)
                     = TopK(DOMAIN bloc[b].vecs, bloc[b].vecs, q, k)]_vars

\* A synchronous build has returned on a library with chunks, with no build
\* and no write under way: the index is of the type it asked for and holds the
\* library's chunks.
C29_Witness ==
    /\ HasIndex /\ index_types[Lib] \in SyncTypes /\ indexes[Lib].type \in SyncTypes
    /\ items # {} /\ IndexIds(indexes[Lib]) = items
    /\ ~is_index_stale /\ ~IsBuilding /\ Running = {}
    /\ \A w \in Writers : pc[w] = "idle"

\* An unfiltered knn gets its result.
KnnAnswers(r) == pc[r] = "r_search" /\ pc'[r] = "r_release"

\* C30: an unfiltered knn on a stale library returns, when allow_stale_index
\* is false, an exact top k of its query over the chunks stored now, whatever
\* the resident index holds; when allow_stale_index is true it returns what
\* the resident index answers, and nothing if there is no resident index.
C30_StalenessPolicy ==
    [][\A r \in Readers :
         (KnnAnswers(r) /\ is_index_stale) =>
            LET q == rloc'[r].q
                k == rloc'[r].k
            IN /\ ~allow_stale_index =>
                     rloc'[r].res \in TopK(items, Embeddings(items), q, k)
               /\ allow_stale_index =>
                     IF HasIndex THEN rloc'[r].res \in IndexSearch(indexes[Lib], q, k)
                     ELSE rloc'[r].res = {}]_vars

\* A knn has an exact answer that the resident index, which lacks a stored
\* chunk, could not have given.
C30_Witness ==
    \E r \in Readers :
       /\ pc[r] = "r_release" /\ rloc[r].src = "transient" /\ ~allow_stale_index
       /\ HasIndex /\ is_index_stale /\ IndexIds(indexes[Lib]) # items
       /\ rloc[r].res # {}
       /\ rloc[r].res \notin IndexSearch(indexes[Lib], rloc[r].q, rloc[r].k)


\* An unfiltered knn has found the library stale, under its read lock.
ObservedStale(r) == pc[r] \in {"r_spawn", "r_search"} /\ is_index_stale

\* Every chunk call has been made and has returned.
WritesOver == writes = MaxWrites /\ \A w \in Writers : pc[w] = "idle"

\* C31: once an unfiltered knn has found the library stale and no chunk write
\* follows, the library eventually stops being stale; the knn goes on to its
\* search without waiting for a build.
C31_StaleLeadsToFresh ==
    /\ \A r \in Readers : (ObservedStale(r) /\ WritesOver) ~> ~is_index_stale
    /\ [](\A r \in Readers :
            /\ pc[r] = "r_spawn" => ENABLED KnnSpawn(r, MainPool)
            /\ pc[r] = "r_search" => ENABLED KnnSearch(r))

\* The ids a knn call returned are a brute-force top k of the chunks `cs` for
\* the query: all of them when there are at most k, else k of them that no
\* chunk left out outscores.
ExactTopKOf(res, cs, q, k) ==
    /\ res \subseteq cs
    /\ Cardinality(res) = (IF Cardinality(cs) < k THEN Cardinality(cs) ELSE k)
    /\ \A i \in res, j \in cs \ res :
         cosine_similarity(chunk[i].embedding, q) >= cosine_similarity(chunk[j].embedding, q)

C33_OneLockPerLibrary ==
    /\ [](\A p \in returned, q \in returned : (p[1] = q[1]) <=> (p[2] = q[2]))
    /\ [](\A p \in returned : p[1] \in DOMAIN reg_locks /\ reg_locks[p[1]] = p[2])
    /\ [][\A id \in DOMAIN reg_locks :
             id \in DOMAIN reg_locks' /\ reg_locks'[id] = reg_locks[id]]_vars

\* Two threads are in their calls for one id, one waiting at the lock while
\* the other returns the RWLock the first call for that id made; the other id
\* has been handed its own lock.
C33_Witness ==
    \E t \in RegThreads, u \in RegThreads :
        /\ gpc[t] = "g_return" /\ gpc[u] = "g_enter"
        /\ gloc[t].library_id = gloc[u].library_id
        /\ <<gloc[t].library_id, gloc[t].lock>> \in returned
        /\ \E p \in returned : p[1] # gloc[t].library_id

\* The stored entities of a repository that name the parent p in `field`.
StoredWith(kind, field, p) ==
    {repos[kind].items[i] : i \in {j \in DOMAIN repos[kind].items :
        (IF field = "library_id" THEN repos[kind].items[j].library_id
         ELSE repos[kind].items[j].document_id) = p}}

\* C34: whatever create, update, delete and replace_all calls the chunk and
\* document repositories have had, list_by_library(L) returns exactly the
\* stored entities whose library_id is L and list_by_document(D) exactly the
\* stored chunks whose document_id is D.
C34_SecondaryIndexesExact ==
    /\ \A kind \in {"documents", "chunks"}, l \in RepoIds :
         RepoListByLibrary(kind, repos[kind], l)
            = Outcome(repos[kind], "", StoredWith(kind, "library_id", l))
    /\ \A d \in RepoIds :
         RepoListByDocument("chunks", repos["chunks"], d)
            = Outcome(repos["chunks"], "", StoredWith("chunks", "document_id", d))

\* The ids a repository stores.
Stored(kind) == DOMAIN repos[kind].items

\* C35: in each repository a create of a stored id fails with Conflict; a get,
\* update or delete of an id not stored fails with NotFound; such a failure
\* leaves the repository as it was; after a delete that succeeded the id is not
\* stored, a get of an id not stored fails with NotFound, and only a create (or
\* a replace_all) stores an id again.
C35_RepositoryErrors ==
    /\ [][rn' # rn =>
            LET kind == rop'.kind
                id == rop'.id
            IN /\ (rop'.op = "create" /\ id \in Stored(kind))
                     => rop'.raised = "ConflictError"
               /\ (rop'.op \in {"get", "update", "delete"} /\ id \notin Stored(kind))
                     => rop'.raised = "NotFoundError"
               /\ rop'.raised \in {"ConflictError", "NotFoundError"} => repos' = repos
               /\ (rop'.op = "delete" /\ rop'.raised = "")
                     => id \notin DOMAIN repos'[kind].items
               /\ \A k \in RepoKinds, i \in RepoIds :
                     (i \notin Stored(k) /\ i \in DOMAIN repos'[k].items)
                        => rop'.op \in {"create", "replace_all"}]_vars
    /\ [](\A k \in RepoKinds, i \in RepoIds :
            i \notin Stored(k) => RepoGet(k, repos[k], i).raised = "NotFoundError")

\* The last of MaxRepoOps calls, a create of a chunk id that is stored, has
\* failed with Conflict.
C35_Witness ==
    /\ rop.kind = "chunks" /\ rop.op = "create" /\ rop.raised = "ConflictError"
    /\ rop.id \in Stored("chunks")
    /\ rn = MaxRepoOps

PatchLacksId(w) ==
    /\ wop[w].id \in items /\ HasIndex
    /\ \/ wop[w].kind = "delete" /\ IndexRemove(indexes[Lib], wop[w].id).raised
       \/ /\ wop[w].kind = "update" /\ wop[w].embedding # NoVec
          /\ ValidEmbedding(wop[w].embedding)
          /\ IndexUpdate(indexes[Lib], wop[w].id, wop[w].embedding).raised

\* C37: a chunk create, update or delete that ends with an error leaves the
\* chunk repository, data_version, index_version and the resident index as they
\* were, and no delete or embedding update of a stored chunk fails because the
\* resident index lacks the chunk's id, whatever builds run beside it.
C37_ChunkCallsAllOrNothing ==
    [][\A w \in Writers :
         LeavesWriteSection(w) =>
            /\ ChunkRaises(w) =>
                  UNCHANGED <<items, chunk, data_version, index_version, indexes>>
            /\ ~PatchLacksId(w)]_vars

\* The n-th request to the build endpoint is the last so far and named type T.
LastAccepted(n, T) == Len(accepted) = n /\ accepted[n] = T

\* C38: every request the build endpoint has answered "building" for type T is
\* followed by a resident index of type T, unless another request comes after
\* it; also when a build was in flight as the request came.
C38_AcceptedBuildInstalls ==
    \A n \in 1..MaxRequests, T \in IndexTypes :
        LastAccepted(n, T) ~>
            ((HasIndex /\ index_types[Lib] = T) \/ Len(accepted) > n)

\* The <<id, vector>> pairs a brute-force index holds, position by position.
BfPairs(b) == {<<b.ids[i], b.vectors[i]>> : i \in 1..Len(b.ids)}

\* C39: in a brute-force index, after any build with distinct ids, add, remove
\* and update, ids and vectors have the same length, the position map has one
\* entry per element of ids and maps ids[i] to i; a remove deletes the pair of
\* the id it is given and leaves every other id with its own vector.
C39_BruteForceStructure ==
    /\ [](ix.type = "brute_force" =>
            /\ Len(ix.ids) = Len(ix.vectors)
            /\ DOMAIN ix.pos = {ix.ids[i] : i \in 1..Len(ix.ids)}
            /\ Cardinality(DOMAIN ix.pos) = Len(ix.ids)
            /\ \A i \in 1..Len(ix.ids) : ix.pos[ix.ids[i]] = i)
    /\ [][(ix.type = "brute_force" /\ ixop'.op = "remove" /\ ixop'.raised = "") =>
            /\ ixop'.id \in DOMAIN ix.pos
            /\ BfPairs(ix') = BfPairs(ix) \ {<<ixop'.id, ix.vectors[ix.pos[ixop'.id]]>>}
            /\ Len(ix'.ids) = Len(ix.ids) - 1]_vars

\* A remove of the smallest id has succeeded on a brute-force index and left
\* the two others behind, the larger one first.
C39_Witness ==
    /\ ix.type = "brute_force" /\ ixop.op = "remove" /\ ixop.raised = ""
    /\ Len(ix.ids) = 2 /\ ix.ids[1] > ix.ids[2] /\ ix.ids[1] > ixop.id
    /\ ixop.id < ix.ids[2]

\* The places <<key, position>> of the buckets of an LSH index that hold the id.
BucketPlaces(l, id) ==
    {p \in UNION {{<<key, i>> : i \in 1..Len(l.buckets[key])} : key \in DOMAIN l.buckets} :
        l.buckets[p[1]][p[2]] = id}

=============================================================================
